---- MODULE Spec2Model ----
(***************************************************************************)
(* Model of the agentic conversation loop of the LMMS "AI producer":       *)
(* AgentManager (src/src/core/AgentManager.cpp), the part of AgentTools    *)
(* it dispatches to (src/src/core/AgentTools.cpp) and the transport        *)
(* (QNetworkReply) notifications it consumes.                              *)
(*                                                                         *)
(* Text is a sequence of one-character strings.  An SSE stream is a        *)
(* sequence of tokens: the record prefix "data: ", the newline, and one    *)
(* token per JSON payload (a record holding the parsed payload).           *)
(*                                                                         *)
(* The main thread is either in the event loop (pc = "loop") or inside     *)
(* the synchronous tool loop started by onStreamingFinished, stopped at    *)
(* one of the two points where control leaves the manager: the emission    *)
(* of toolCallStarted (pc = "emitStarted") and of toolCallCompleted        *)
(* (pc = "emitCompleted").  Under Spec the public operations are called    *)
(* from the event loop only; under SpecReentrant a subscriber may also     *)
(* call them from a slot connected to those two signals.                   *)
(* SpecLive is Spec with the fairness the transport and the tool round     *)
(* provide.                                                                *)
(*                                                                         *)
(* SpecTempo and SpecTracks exercise the tool registry on its own: the     *)
(* handlers are called directly on the song, with arguments drawn from     *)
(* TempoInputs and TrackInputs.  SpecWire exercises the SSE parser on its   *)
(* own, at the level of bytes: a stream of complete records is delivered   *)
(* in reads of any sizes.  SpecChunk hands chunks to processStreamingChunk  *)
(* directly, with every kind of delta the server can send.  SpecPanel is    *)
(* the manager together with the ChatPanel (src/src/gui/ChatPanel.cpp)     *)
(* whose slots run, synchronously, on every signal the manager emits.      *)
(* SpecScroll is the panel's auto-scroll policy with its timers.           *)
(***************************************************************************)
EXTENDS Integers, Sequences, FiniteSets, TLC

\* ------------------------------------------------------------------ bounds
MaxReplies == 2      \* requests opened in one run
MaxReads == 2        \* readable-data notifications delivered in one run
MaxTracks == 1       \* tracks in the song
MaxNotes == 1        \* notes in the clips of one track
MaxWidgets == 2      \* artifacts in the message list when a message is typed
MaxTimers == 2       \* timers of scrollToBottom pending at once
MaxGrowth == 2       \* times the message list grows by a page

\* --------------------------------------------------------------- variables
VARIABLES
    m_apiKey,                \* QString, <<>> when not configured
    m_isProcessing,
    m_conversationHistory,   \* sequence of ChatMessage
    m_pendingToolCalls,      \* sequence of ToolCall
    m_currentToolCallIndex,
    m_currentReply,          \* reply id, 0 for nullptr
    m_streamBuffer,          \* sequence of tokens
    m_accumulatedContent,
    m_accumulatedThinking,
    m_accumulatedToolCalls,  \* sequence of [id, name, arguments]
    m_isStreaming,
    replies,                 \* the QNetworkReply objects created so far
    reads,                   \* readable-data notifications delivered so far
    tempo,                   \* host: Song tempo
    tracks,                  \* host: Song::tracks()
    call,                    \* the last call made to the registry directly
    wire,                    \* a byte stream fed to the SSE parser directly
    fed,                     \* the chunks handed to processStreamingChunk directly
    panel,                   \* the ChatPanel subscribed to the manager's signals
    playing,                 \* Song::isPlaying()
    scroll,                  \* the panel's scroll bar, auto-scroll flags and timers
    pc,                      \* position of the main thread
    frame,                   \* executeToolCall's `toolCall` reference
    emitted,                 \* signals emitted by the last step, in order
    last,                    \* the last step taken
    ghost                    \* history variables used by the properties

vars == << m_apiKey, m_isProcessing, m_conversationHistory, m_pendingToolCalls,
           m_currentToolCallIndex, m_currentReply, m_streamBuffer,
           m_accumulatedContent, m_accumulatedThinking, m_accumulatedToolCalls,
           m_isStreaming, replies, reads, tempo, tracks, call, wire, fed, panel, playing, scroll, pc,
           frame, emitted, last, ghost >>

\* the host state the conversation model leaves alone
hostVars == << tracks, call, wire, fed, panel, playing, scroll >>

\* the same without the chat panel
songVars == << tracks, call, wire, fed, playing, scroll >>

\* ------------------------------------------------------------------- text
RECURSIVE Flatten(_)
\* concatenation of a sequence of texts, in order
Flatten(ss) == IF ss = << >> THEN << >> ELSE Head(ss) \o Flatten(Tail(ss))

\* QString::indexOf(sub, from) on token sequences; positions are 1-based, 0 = not found
IndexOf(s, sub, from) ==
    LET hits == { i \in from..(Len(s) - Len(sub) + 1) : SubSeq(s, i, i + Len(sub) - 1) = sub }
    IN  IF hits = {} THEN 0 ELSE CHOOSE i \in hits : \A j \in hits : i <= j

\* ------------------------------------------------------------------- JSON
\* A QJsonObject of tool arguments: a set of <<key, value>> pairs.
EmptyObject == {}
Contains(obj, k) == \E p \in obj : p[1] = k
Value(obj, k) == (CHOOSE p \in obj : p[1] = k)[2]

Digits == [c \in {"0", "1", "2", "5", "9"} |->
             CASE c = "0" -> 0 [] c = "1" -> 1 [] c = "2" -> 2 [] c = "5" -> 5 [] c = "9" -> 9]

RECURSIVE DigitsValue(_)
DigitsValue(ds) ==
    IF ds = << >> THEN 0 ELSE 10 * DigitsValue(SubSeq(ds, 1, Len(ds) - 1)) + Digits[ds[Len(ds)]]

\* a JSON number: digits, no leading zero
IsNumber(ds) ==
    /\ Len(ds) >= 1
    /\ \A i \in 1..Len(ds) : ds[i] \in DOMAIN Digits
    /\ (Len(ds) > 1 => ds[1] # "0")

\* QJsonDocument::fromJson(text).object() for argument text.  The character
\* "b" stands for the key and colon  "bpm":  .  Anything that is not a JSON
\* object document yields the empty object.
JsonObjectOf(text) ==
    IF Len(text) >= 3 /\ text[1] = "{" /\ text[2] = "b" /\ text[Len(text)] = "}"
          /\ IsNumber(SubSeq(text, 3, Len(text) - 1))
    THEN { <<"bpm", DigitsValue(SubSeq(text, 3, Len(text) - 1))>> }
    ELSE EmptyObject

\* --------------------------------------------------------- SSE payloads
\* choices[0].delta of a streamed chunk.  An absent string field reads as
\* the empty text (QJsonValue::toString()); presence is kept where the code
\* tests it and the test can change the outcome.
NoDelta == [hasContent |-> FALSE, content |-> << >>,
            hasReasoning |-> FALSE, reasoning |-> << >>,
            hasThinking |-> FALSE, thinking |-> << >>,
            tool_calls |-> << >>]
ContentDelta(s) == [NoDelta EXCEPT !.hasContent = TRUE, !.content = s]
ReasoningDelta(s) == [NoDelta EXCEPT !.hasReasoning = TRUE, !.reasoning = s]
ThinkingDelta(s) == [NoDelta EXCEPT !.hasThinking = TRUE, !.thinking = s]

\* the JSON value under "index" of a tool-call delta: a whole number, or
\* something QJsonValue::toInt() does not convert (the key is absent, the
\* value is a string, the number has a fraction; n is then not looked at)
JsonInt(i) == [t |-> "int", n |-> i]
AbsentValue == [t |-> "absent", n |-> 0]
StringValue == [t |-> "string", n |-> 0]
FractionValue == [t |-> "fraction", n |-> 1]

\* QJsonValue::toInt(): the number if it is whole, the default 0 otherwise
toInt(v) == IF v.t = "int" THEN v.n ELSE 0

ToolDeltaAt(v, id, name, args) ==
    [NoDelta EXCEPT !.tool_calls = << [index |-> v, id |-> id, name |-> name, arguments |-> args] >>]
ToolDelta(i, id, name, args) == ToolDeltaAt(JsonInt(i), id, name, args)

ChunkOf(delta) == [hasError |-> FALSE, choices |-> << delta >>]
ErrorChunk == [hasError |-> TRUE, choices |-> << >>]
NoChoicesChunk == [hasError |-> FALSE, choices |-> << >>]

\* the JSON object payloads the server sends in this model
JsonPayloads ==
    { ChunkOf(ContentDelta(<<"a">>)), ChunkOf(ContentDelta(<<"b">>)),
      ChunkOf(ReasoningDelta(<<"r">>)), ChunkOf(ThinkingDelta(<<"t">>)),
      ChunkOf(ToolDelta(0, "c1", "get_tempo", << >>)),
      ChunkOf(ToolDelta(0, "c1", "set_tempo", <<"{", "b">>)),
      ChunkOf(ToolDelta(0, "", "", <<"1", "2", "}">>)),
      ChunkOf(ToolDelta(1, "c2", "nope", <<"{", "}">>)),
      ErrorChunk, NoChoicesChunk }

\* tokens of the stream text
Prefix == [t |-> "data: "]
Newline == [t |-> "\n"]
Done == [t |-> "[DONE]"]
Junk == [t |-> "junk"]                       \* not JSON
JsonArray == [t |-> "[1]"]                   \* JSON, but not an object
Json(doc) == [t |-> "json", doc |-> doc]     \* the text of a JSON object
Payloads == { Json(d) : d \in JsonPayloads } \cup { Done, Junk, JsonArray }

\* what one network read can deliver
Chunks ==
    { << Prefix, p, Newline >> : p \in Payloads }
    \cup { << Prefix, Json(ChunkOf(ContentDelta(<<"a">>))) >>, << Newline >>, << Prefix >> }
    \cup { << Prefix, Json(ChunkOf(ToolDelta(0, "c1", "set_tempo", <<"{", "b">>))), Newline,
               Prefix, Json(ChunkOf(ToolDelta(0, "", "", <<"1", "2", "}">>))), Newline >> }
    \cup { << Prefix, Json(ErrorChunk), Newline,
               Prefix, Json(ChunkOf(ContentDelta(<<"b">>))), Newline >> }

\* ------------------------------------------------------------- data model
ChatMessage(role, content, toolCallId, name, toolCalls) ==
    [role |-> role, content |-> content, toolCallId |-> toolCallId,
     name |-> name, toolCalls |-> toolCalls]

ToolCall(id, name, arguments) == [id |-> id, name |-> name, arguments |-> arguments]

ToolResult(success, result, error) == [success |-> success, result |-> result, error |-> error]

\* the slot processStreamingChunk appends while growing the accumulator
EmptySlot == [id |-> "", name |-> "", arguments |-> << >>]

\* a QNetworkReply: open, aborted or done; connected = its signals reach the manager
\* `request` is the body posted with it, in flight until the reply is over
NoRequest == [stream |-> FALSE, messages |-> << >>, tools |-> {}]
NewReply(request) == [status |-> "open", connected |-> TRUE, request |-> request]

NoFrame == [call |-> ToolCall("", "", EmptyObject), valid |-> FALSE]

\* ------------------------------------------------------------ tool registry
DefaultTempo == 140

getTempo(args, t) ==
    [res |-> ToolResult(TRUE, <<"{\"bpm\":", ToString(t), "}">>, << >>), tempo |-> t]

\* a set_tempo that clamps bpm into the range instead of refusing it
setTempoClamps(args, t) ==
    IF ~Contains(args, "bpm")
    THEN [res |-> ToolResult(FALSE, << >>, <<"Missing required parameter: bpm">>), tempo |-> t]
    ELSE LET given == Value(args, "bpm")
             bpm == IF given < 10 THEN 10 ELSE IF given > 999 THEN 999 ELSE given
         IN  [res |-> ToolResult(TRUE,
                          <<"{\"bpm\":", ToString(bpm), ",\"message\":\"Tempo set to ",
                            ToString(bpm), " BPM\",\"success\":true}">>, << >>),
              tempo |-> bpm]

setTempo(args, t) ==
    IF ~Contains(args, "bpm")
    THEN [res |-> ToolResult(FALSE, << >>, <<"Missing required parameter: bpm">>), tempo |-> t]
    ELSE LET bpm == Value(args, "bpm") IN
         IF bpm < 10 \/ bpm > 999
         THEN [res |-> ToolResult(FALSE, << >>,
                          <<"BPM must be between 10 and 999, got ", ToString(bpm)>>),
               tempo |-> t]
         ELSE [res |-> ToolResult(TRUE,
                          <<"{\"bpm\":", ToString(bpm), ",\"message\":\"Tempo set to ",
                            ToString(bpm), " BPM\",\"success\":true}">>, << >>),
               tempo |-> bpm]

\* the names in m_toolFunctions that this model dispatches
ToolNames == {"get_tempo", "set_tempo", "play_project"}

\* a play_project that asks for a `confirm` argument before it starts
playProjectNeedsConfirm(args, t) ==
    IF ~Contains(args, "confirm")
    THEN [res |-> ToolResult(FALSE, << >>, <<"Missing required parameter: confirm">>), tempo |-> t]
    ELSE [res |-> ToolResult(TRUE,
                      <<"{\"message\":\"Project playback started\",\"status\":\"playing\"}">>, << >>),
          tempo |-> t, playing |-> TRUE]

\* playProject ignores its arguments; `playing` is what Song::isPlaying()
\* will answer after the call
playProject(args, t) ==
    [res |-> ToolResult(TRUE,
                 IF playing
                 THEN <<"{\"status\": \"already_playing\", \"message\": \"Project is already playing\"}">>
                 ELSE <<"{\"message\":\"Project playback started\",\"status\":\"playing\"}">>,
                 << >>),
     tempo |-> t, playing |-> TRUE]

\* the handler m_toolFunctions holds under `name`
Handler(name, args, t) ==
    CASE name = "get_tempo" -> getTempo(args, t)
      [] name = "set_tempo" -> setTempo(args, t)
      [] name = "play_project" -> playProject(args, t)

\* Song::isPlaying() after a tool call with outcome `out`
PlayingAfter(out) == IF "playing" \in DOMAIN out THEN out.playing ELSE playing

\* a registry that answers an unregistered name with an empty success
executeToolUnknownSilent(name, args, t) ==
    IF name \notin ToolNames
    THEN [res |-> ToolResult(TRUE, << >>, << >>), tempo |-> t]
    ELSE Handler(name, args, t)

\* a registry that passes over a call with no name
executeToolSkipsUnnamed(name, args, t) ==
    IF name = ""
    THEN [res |-> ToolResult(TRUE, << >>, << >>), tempo |-> t]
    ELSE IF name \notin ToolNames
    THEN [res |-> ToolResult(FALSE, << >>, <<"Unknown tool: ", name>>), tempo |-> t]
    ELSE Handler(name, args, t)

executeTool(name, args, t) ==
    IF name \notin ToolNames
    THEN [res |-> ToolResult(FALSE, << >>, <<"Unknown tool: ", name>>), tempo |-> t]
    ELSE Handler(name, args, t)

\* ------------------------------------------------------- track and note tools
\* A track of the song: its name, mute flag, type and the notes
\* in its MIDI clips.
Track(name, muted, type, notes) == [name |-> name, muted |-> muted, type |-> type, notes |-> notes]

\* the track Track::create() adds to the song; the name is the host's default
NewTrack(type) ==
    Track(IF type = "Instrument" THEN "Default preset" ELSE "Sample track", FALSE, type, << >>)

\* args[k].toInt(): 0 when the key is absent
IntOf(args, k) == IF Contains(args, k) THEN Value(args, k) ELSE 0

InvalidTrackIndex(index) ==
    ToolResult(FALSE, << >>, << "Invalid track index: ", ToString(index) >>)

NotInstrument == ToolResult(FALSE, << >>, << "Track is not an instrument track" >>)

listTracks(args, ts) ==
    [res |-> ToolResult(TRUE, << "{\"count\":", ToString(Len(ts)), "}" >>, << >>), tracks |-> ts]

\* addInstrumentTrack and addSampleTrack
addTrack(type, args, ts) ==
    LET created == NewTrack(type)
        track == IF Contains(args, "name") /\ Value(args, "name") # ""
                 THEN [created EXCEPT !.name = Value(args, "name")]
                 ELSE created
    IN  [res |-> ToolResult(TRUE, << "Created ", type, " track: ", track.name >>, << >>),
         tracks |-> Append(ts, track)]

removeTrack(args, ts) ==
    IF ~Contains(args, "track_index")
    THEN [res |-> ToolResult(FALSE, << >>, << "Missing required parameter: track_index" >>),
          tracks |-> ts]
    ELSE LET index == IntOf(args, "track_index") IN
         IF index < 0 \/ index >= Len(ts)
         THEN [res |-> InvalidTrackIndex(index), tracks |-> ts]
         ELSE [res |-> ToolResult(TRUE, << "Removed track: ", ts[index + 1].name >>, << >>),
               tracks |-> SubSeq(ts, 1, index) \o SubSeq(ts, index + 2, Len(ts))]

setTrackName(args, ts) ==
    IF ~Contains(args, "track_index") \/ ~Contains(args, "name")
    THEN [res |-> ToolResult(FALSE, << >>, << "Missing required parameters: track_index, name" >>),
          tracks |-> ts]
    ELSE LET index == IntOf(args, "track_index")
             name == Value(args, "name")
         IN  IF index < 0 \/ index >= Len(ts)
             THEN [res |-> InvalidTrackIndex(index), tracks |-> ts]
             ELSE [res |-> ToolResult(TRUE, << "Renamed track from '", ts[index + 1].name,
                                               "' to '", name, "'" >>, << >>),
                   tracks |-> [ts EXCEPT ![index + 1] = [@ EXCEPT !.name = name]]]

setTrackMuted(args, ts) ==
    IF ~Contains(args, "track_index") \/ ~Contains(args, "muted")
    THEN [res |-> ToolResult(FALSE, << >>, << "Missing required parameters: track_index, muted" >>),
          tracks |-> ts]
    ELSE LET index == IntOf(args, "track_index")
             muted == Value(args, "muted")
         IN  IF index < 0 \/ index >= Len(ts)
             THEN [res |-> InvalidTrackIndex(index), tracks |-> ts]
             ELSE [res |-> ToolResult(TRUE, << "Track '", ts[index + 1].name, "' is now ",
                                               IF muted THEN "muted" ELSE "unmuted" >>, << >>),
                   tracks |-> [ts EXCEPT ![index + 1] = [@ EXCEPT !.muted = muted]]]

\* Note(TimePos(length), TimePos(position), key, volume, DefaultPanning)
Note(length, position, key, volume) ==
    [key |-> key, position |-> position, length |-> length, volume |-> volume]

\* the loop of addNotesToTrack: notes whose key is outside the MIDI range are skipped
RECURSIVE AddNotes(_, _)
AddNotes(notes, notesArray) ==
    IF notesArray = << >> THEN notes
    ELSE LET noteObj == Head(notesArray)
             key == IntOf(noteObj, "key")
             position == IntOf(noteObj, "position")
             length == IntOf(noteObj, "length")
             volume == IF Contains(noteObj, "volume") THEN IntOf(noteObj, "volume") ELSE 100
         IN  AddNotes(IF key < 0 \/ key > 127 THEN notes
                      ELSE Append(notes, Note(length, position, key, volume)),
                      Tail(notesArray))

addNotesToTrack(args, ts) ==
    IF ~Contains(args, "track_index") \/ ~Contains(args, "notes")
    THEN [res |-> ToolResult(FALSE, << >>, << "Missing required parameters: track_index, notes" >>),
          tracks |-> ts]
    ELSE LET trackIndex == IntOf(args, "track_index")
             notesArray == Value(args, "notes")
         IN  IF trackIndex < 0 \/ trackIndex >= Len(ts)
             THEN [res |-> InvalidTrackIndex(trackIndex), tracks |-> ts]
             ELSE IF ts[trackIndex + 1].type # "Instrument"
             THEN [res |-> NotInstrument, tracks |-> ts]
             ELSE LET track == ts[trackIndex + 1]
                      notes == AddNotes(track.notes, notesArray)
                  IN  [res |-> ToolResult(TRUE, << "Added ", ToString(Len(notes) - Len(track.notes)),
                                                    " notes to track '", track.name, "'" >>, << >>),
                       tracks |-> [ts EXCEPT ![trackIndex + 1] = [@ EXCEPT !.notes = notes]]]

getTrackNotes(args, ts) ==
    IF ~Contains(args, "track_index")
    THEN [res |-> ToolResult(FALSE, << >>, << "Missing required parameter: track_index" >>),
          tracks |-> ts]
    ELSE LET trackIndex == IntOf(args, "track_index") IN
         IF trackIndex < 0 \/ trackIndex >= Len(ts)
         THEN [res |-> InvalidTrackIndex(trackIndex), tracks |-> ts]
         ELSE IF ts[trackIndex + 1].type # "Instrument"
         THEN [res |-> NotInstrument, tracks |-> ts]
         ELSE [res |-> ToolResult(TRUE, << "{\"note_count\":",
                                           ToString(Len(ts[trackIndex + 1].notes)), "}" >>, << >>),
               tracks |-> ts]

clearTrackNotes(args, ts) ==
    IF ~Contains(args, "track_index")
    THEN [res |-> ToolResult(FALSE, << >>, << "Missing required parameter: track_index" >>),
          tracks |-> ts]
    ELSE LET trackIndex == IntOf(args, "track_index") IN
         IF trackIndex < 0 \/ trackIndex >= Len(ts)
         THEN [res |-> InvalidTrackIndex(trackIndex), tracks |-> ts]
         ELSE IF ts[trackIndex + 1].type # "Instrument"
         THEN [res |-> NotInstrument, tracks |-> ts]
         ELSE LET track == ts[trackIndex + 1] IN
              [res |-> ToolResult(TRUE, << "Cleared ", ToString(Len(track.notes)),
                                           " notes from track '", track.name, "'" >>, << >>),
               tracks |-> [ts EXCEPT ![trackIndex + 1] = [@ EXCEPT !.notes = << >>]]]

\* the track and note tools initializeTools registers
TrackToolNames ==
    { "list_tracks", "add_instrument_track", "add_sample_track", "set_track_name",
      "set_track_muted", "add_notes_to_track", "get_track_notes", "clear_track_notes" }

\* every name initializeTools registers; getToolDefinitions lists one
\* definition per name
RegisteredNames ==
    ToolNames \cup TrackToolNames
    \cup { "list_samples", "get_sample_categories", "get_project_info",
           "play_project", "stop_project" }

\* executeTool on the whole song: the handler registered under `name`
executeToolOnSong(name, args, t, ts) ==
    IF name \in TrackToolNames
    THEN LET out == CASE name = "list_tracks" -> listTracks(args, ts)
                      [] name = "add_instrument_track" -> addTrack("Instrument", args, ts)
                      [] name = "add_sample_track" -> addTrack("Sample", args, ts)
                      [] name = "set_track_name" -> setTrackName(args, ts)
                      [] name = "set_track_muted" -> setTrackMuted(args, ts)
                      [] name = "add_notes_to_track" -> addNotesToTrack(args, ts)
                      [] name = "get_track_notes" -> getTrackNotes(args, ts)
                      [] name = "clear_track_notes" -> clearTrackNotes(args, ts)
         IN  [res |-> out.res, tempo |-> t, tracks |-> out.tracks]
    ELSE LET out == executeTool(name, args, t)
         IN  [res |-> out.res, tempo |-> out.tempo, tracks |-> ts]

NoCall == [name |-> "", args |-> EmptyObject, res |-> ToolResult(TRUE, << >>, << >>)]

\* ------------------------------------------------- the SSE parser on bytes
\* Bytes are one-character strings, except the two bytes of the UTF-8
\* encoding of U+00E9, written "C3" and "A9".  Decoded text is a sequence of
\* characters, among them "U+00E9" and the replacement character "U+FFFD".
\* A payload is written { ... }: the characters between the braces stand for
\* the text of a string member of the JSON object.
DataPrefix == << "d", "a", "t", "a", ":", " " >>
DoneText == << "[", "D", "O", "N", "E", "]" >>
Whitespace == { " ", "\n", "\r", "\t" }

RECURSIVE fromUtf8(_)
\* QString::fromUtf8(data): the decoder keeps no state between calls, so a
\* byte of a sequence that is not complete within `data` decodes to U+FFFD
fromUtf8(data) ==
    IF data = << >> THEN << >>
    ELSE IF Len(data) >= 2 /\ data[1] = "C3" /\ data[2] = "A9"
         THEN << "U+00E9" >> \o fromUtf8(SubSeq(data, 3, Len(data)))
    ELSE IF data[1] \in { "C3", "A9" }
         THEN << "U+FFFD" >> \o fromUtf8(Tail(data))
    ELSE << data[1] >> \o fromUtf8(Tail(data))

RECURSIVE trimmed(_)
\* QString::trimmed()
trimmed(text) ==
    IF text = << >> THEN text
    ELSE IF text[1] \in Whitespace THEN trimmed(Tail(text))
    ELSE IF text[Len(text)] \in Whitespace THEN trimmed(SubSeq(text, 1, Len(text) - 1))
    ELSE text

\* QJsonDocument::fromJson(line) is an object, for payload text
IsJsonObjectText(line) ==
    /\ Len(line) >= 2 /\ line[1] = "{" /\ line[Len(line)] = "}"
    /\ \A i \in 2..(Len(line) - 1) : line[i] \notin { "{", "}" }

RECURSIVE ReadLoopText(_)
\* the while(true) loop of onStreamingReadyRead on text: out collects the
\* payloads handed to processStreamingChunk, done counts streamingFinished
ReadLoopText(st) ==
    LET dataIndex == IndexOf(st.buf, DataPrefix, 1) IN
    IF dataIndex = 0 THEN st
    ELSE
    LET endIndex == IndexOf(st.buf, << "\n" >>, dataIndex) IN
    IF endIndex = 0 THEN st
    ELSE
    LET line == trimmed(SubSeq(st.buf, dataIndex + 6, endIndex - 1))
        s1 == [st EXCEPT !.buf = SubSeq(st.buf, endIndex + 1, Len(st.buf))]
    IN  IF line = << >> THEN ReadLoopText(s1)
        ELSE IF line = DoneText THEN ReadLoopText([s1 EXCEPT !.done = @ + 1])
        ELSE IF ~IsJsonObjectText(line) THEN ReadLoopText(s1)
        ELSE ReadLoopText([s1 EXCEPT !.out = Append(@, line)])

\* onStreamingReadyRead for one readAll() that returns `data`
onReadyReadBytes(st, data) ==
    LET res == ReadLoopText([buf |-> st.buf \o fromUtf8(data),
                             out |-> st.out, done |-> st.done])
    IN  [buf |-> res.buf, out |-> res.out, done |-> res.done]

\* nothing handed to the chunk handler yet
NoneFed == [chunks |-> << >>, crashed |-> FALSE]

NoWire == [rest |-> << >>, whole |-> << >>, buf |-> << >>,
           out |-> << >>, done |-> 0]

\* -------------------------------------------------------------- ChatPanel
\* The panel's message list is a sequence of artifacts [kind, text, stream];
\* a widget pointer is a position in it, 0 for nullptr.  `stream` records the
\* number of streamingStarted signals seen when the artifact was created and
\* `finishedSeen` the streamingFinished signals since the last
\* streamingStarted; neither is read by the panel.
NewPanel ==
    [m_isProcessing |-> FALSE, m_isStreaming |-> FALSE,
     m_streamingOutputComplete |-> FALSE, m_hasThinkingContent |-> FALSE,
     m_currentStreamContent |-> << >>, m_currentThinkingContent |-> << >>,
     m_currentThinkingWidget |-> 0, m_currentContentWidget |-> 0,
     m_currentToolCallWidget |-> 0,
     widgets |-> << >>, streams |-> 0, finishedSeen |-> 0]

Artifact(kind, text, p) == [kind |-> kind, text |-> text, stream |-> p.streams]

\* addMessageWidget(widget)
addMessageWidget(p, w) == [p EXCEPT !.widgets = Append(@, w)]

\* setText / updateContent on the widget at position h
setText(p, h, text) == [p EXCEPT !.widgets[h].text = text]

ChatPanel_onResponseReceived(p, response) ==
    IF p.m_streamingOutputComplete THEN [p EXCEPT !.m_streamingOutputComplete = FALSE]
    ELSE IF ~p.m_isStreaming THEN addMessageWidget(p, Artifact("assistant", response, p))
    ELSE p

ChatPanel_onStreamingStarted(p) ==
    [p EXCEPT !.m_isStreaming = TRUE, !.m_streamingOutputComplete = FALSE,
              !.m_currentStreamContent = << >>, !.m_currentThinkingContent = << >>,
              !.m_hasThinkingContent = FALSE,
              !.m_currentThinkingWidget = 0, !.m_currentContentWidget = 0,
              !.streams = @ + 1, !.finishedSeen = 0]

\* updateCurrentStreamingWidgets().  The thinking widget shows the last 800
\* characters of longer text; the texts of the model are shorter.
updateCurrentStreamingWidgets(p) ==
    LET p1 == IF p.m_hasThinkingContent /\ p.m_currentThinkingContent # << >>
              THEN IF p.m_currentThinkingWidget = 0
                   THEN [addMessageWidget(p, Artifact("thinking", p.m_currentThinkingContent, p))
                            EXCEPT !.m_currentThinkingWidget = Len(p.widgets) + 1]
                   ELSE setText(p, p.m_currentThinkingWidget, p.m_currentThinkingContent)
              ELSE p
    IN  IF p1.m_currentStreamContent # << >>
        THEN IF p1.m_currentContentWidget = 0
             THEN [addMessageWidget(p1, Artifact("assistant", p1.m_currentStreamContent, p1))
                      EXCEPT !.m_currentContentWidget = Len(p1.widgets) + 1]
             ELSE setText(p1, p1.m_currentContentWidget, p1.m_currentStreamContent)
        ELSE p1

ChatPanel_onStreamingChunkReceived(p, chunk) ==
    updateCurrentStreamingWidgets([p EXCEPT !.m_currentStreamContent = @ \o chunk])

ChatPanel_onThinkingChunkReceived(p, chunk) ==
    updateCurrentStreamingWidgets([p EXCEPT !.m_currentThinkingContent = @ \o chunk,
                                            !.m_hasThinkingContent = TRUE])

finalizeStreamingWidgets(p) ==
    LET p1 == IF p.m_currentThinkingWidget # 0 /\ p.m_currentThinkingContent # << >>
              THEN setText(p, p.m_currentThinkingWidget, p.m_currentThinkingContent) ELSE p
        p2 == IF p1.m_currentContentWidget # 0 /\ p1.m_currentStreamContent # << >>
              THEN setText(p1, p1.m_currentContentWidget, p1.m_currentStreamContent) ELSE p1
    IN  [p2 EXCEPT !.m_currentThinkingWidget = 0, !.m_currentContentWidget = 0,
                   !.m_currentStreamContent = << >>, !.m_currentThinkingContent = << >>,
                   !.m_hasThinkingContent = FALSE]

ChatPanel_onStreamingFinished(p) ==
    finalizeStreamingWidgets([p EXCEPT !.m_isStreaming = FALSE,
                                       !.m_streamingOutputComplete = TRUE,
                                       !.finishedSeen = @ + 1])

ChatPanel_onToolCallStarted(p, toolName) ==
    [addMessageWidget(p, Artifact("tool", << >>, p))
        EXCEPT !.m_currentToolCallWidget = Len(p.widgets) + 1]

ChatPanel_onToolCallCompleted(p, result) ==
    IF p.m_currentToolCallWidget # 0
    THEN [setText(p, p.m_currentToolCallWidget, result) EXCEPT !.m_currentToolCallWidget = 0]
    ELSE p

ChatPanel_onErrorOccurred(p, error) == addMessageWidget(p, Artifact("error", error, p))

ChatPanel_onProcessingStarted(p) == [p EXCEPT !.m_isProcessing = TRUE]
ChatPanel_onProcessingFinished(p) == [p EXCEPT !.m_isProcessing = FALSE]

\* the slot connected to signal s, called with the signal's argument
Slot(p, s) ==
    CASE s.sig = "responseReceived" -> ChatPanel_onResponseReceived(p, s.arg)
      [] s.sig = "streamingChunkReceived" -> ChatPanel_onStreamingChunkReceived(p, s.arg)
      [] s.sig = "thinkingChunkReceived" -> ChatPanel_onThinkingChunkReceived(p, s.arg)
      [] s.sig = "streamingStarted" -> ChatPanel_onStreamingStarted(p)
      [] s.sig = "streamingFinished" -> ChatPanel_onStreamingFinished(p)
      [] s.sig = "toolCallStarted" -> ChatPanel_onToolCallStarted(p, s.arg)
      [] s.sig = "toolCallCompleted" -> ChatPanel_onToolCallCompleted(p, s.arg)
      [] s.sig = "errorOccurred" -> ChatPanel_onErrorOccurred(p, s.arg)
      [] s.sig = "processingStarted" -> ChatPanel_onProcessingStarted(p)
      [] s.sig = "processingFinished" -> ChatPanel_onProcessingFinished(p)

RECURSIVE Deliver(_, _)
\* the slots run for a sequence of signals, in emission order
Deliver(p, signals) ==
    IF signals = << >> THEN p ELSE Deliver(Slot(p, Head(signals)), Tail(signals))

\* onClearHistory(), up to its call of AgentManager::clearHistory
resetPanel(p) ==
    [p EXCEPT !.widgets = << >>, !.m_isStreaming = FALSE,
              !.m_streamingOutputComplete = FALSE,
              !.m_currentStreamContent = << >>, !.m_currentThinkingContent = << >>,
              !.m_hasThinkingContent = FALSE,
              !.m_currentThinkingWidget = 0, !.m_currentContentWidget = 0]

\* ------------------------------------------------------------ auto-scroll
\* The scroll bar of the message list (value, maximum), the panel's three
\* auto-scroll members and its pending single-shot timers: the number of
\* 10 ms timers, and for each 50 ms timer, oldest first, the number of 10 ms
\* timers that were pending when it was started and so expire before it.
\* `grown` counts
\* the pages added to the list, `cleared` marks messages waiting to be
\* deleted; `op` is the step taken last and `handled` how
\* onScrollValueChanged treated the valueChanged of that step.
Threshold == 50

NewScroll ==
    [m_autoScrollEnabled |-> TRUE, m_lastScrollValue |-> 0, m_isProgrammaticScroll |-> FALSE,
     value |-> 0, maximum |-> 0, scrollTimers |-> 0, resetTimers |-> << >>,
     grown |-> 0, cleared |-> FALSE, op |-> "init", handled |-> "none"]

\* a scroll slot that takes every upward move as the user leaving the bottom
onScrollValueChangedUpClears(s, value) ==
    IF s.m_isProgrammaticScroll
    THEN [s EXCEPT !.m_lastScrollValue = value, !.handled = "latched"]
    ELSE LET scrolledUp == value < s.m_lastScrollValue
             atBottom == (s.maximum - value) <= Threshold
         IN  [s EXCEPT !.m_autoScrollEnabled = IF scrolledUp THEN FALSE
                                               ELSE IF atBottom THEN TRUE ELSE @,
                       !.m_lastScrollValue = value, !.handled = "free"]

onScrollValueChanged(s, value) ==
    IF s.m_isProgrammaticScroll
    THEN [s EXCEPT !.m_lastScrollValue = value, !.handled = "latched"]
    ELSE LET scrolledUp == value < s.m_lastScrollValue
             atBottom == (s.maximum - value) <= Threshold
         IN  [s EXCEPT !.m_autoScrollEnabled = IF scrolledUp /\ ~atBottom THEN FALSE
                                               ELSE IF atBottom THEN TRUE ELSE @,
                       !.m_lastScrollValue = value, !.handled = "free"]

\* QScrollBar::setValue: valueChanged is emitted when the value changes
setValue(s, v) ==
    IF v = s.value THEN [s EXCEPT !.handled = "none"]
    ELSE onScrollValueChanged([s EXCEPT !.value = v], v)

\* scrollToBottom(), up to the start of its timer
scrollToBottom(s) ==
    IF ~s.m_autoScrollEnabled THEN s
    ELSE [s EXCEPT !.m_isProgrammaticScroll = TRUE, !.scrollTimers = @ + 1]

\* the body of the 10 ms timer of scrollToBottom
scrollTimeout(s) ==
    LET maxValue == s.maximum
    IN  [setValue(s, maxValue) EXCEPT
            !.m_lastScrollValue = maxValue,
            !.resetTimers = Append([k \in 1..Len(@) |-> IF @[k] > 0 THEN @[k] - 1 ELSE 0],
                                   s.scrollTimers - 1),
            !.scrollTimers = @ - 1]

\* the body of the 50 ms timer started by the 10 ms timer
resetTimeout(s) == [s EXCEPT !.m_isProgrammaticScroll = FALSE, !.resetTimers = Tail(@)]

\* where the user can put the slider
Positions(s) == { 0, s.maximum - 60, s.maximum - 40, s.maximum } \cap (0..s.maximum)

\* ------------------------------------------------------- history variables
\* between: processingStarted emitted and processingFinished not yet
\* paired:  every processingFinished followed a processingStarted and vice versa
RECURSIVE TrackEvents(_, _)
TrackEvents(g, evs) ==
    IF evs = << >> THEN g
    ELSE LET e == Head(evs)
             g1 == IF e = "processingStarted"
                   THEN [g EXCEPT !.between = TRUE, !.paired = g.paired /\ ~g.between]
                   ELSE IF e = "processingFinished"
                   THEN [g EXCEPT !.between = FALSE, !.paired = g.paired /\ g.between]
                   ELSE g
         IN  TrackEvents(g1, Tail(evs))

\* A delta record is a dispatched JSON object with choices and no top-level
\* error.  contentLog: the choices[0].delta.content fragments of the delta
\* records of the current request; argLog: the (index, function.arguments)
\* pairs of their tool_calls; both in arrival order.
DeltaOf(doc) == IF doc.hasError \/ doc.choices = << >> THEN NoDelta ELSE doc.choices[1]

LogContent(log, doc) ==
    IF DeltaOf(doc).hasContent THEN Append(log, DeltaOf(doc).content) ELSE log

LogArguments(log, doc) ==
    log \o [k \in 1..Len(DeltaOf(doc).tool_calls) |->
              [index |-> toInt(DeltaOf(doc).tool_calls[k].index),
               fragment |-> DeltaOf(doc).tool_calls[k].arguments]]

RECURSIVE FragmentsFor(_, _)
\* the function.arguments fragments delivered for slot i, in arrival order
FragmentsFor(log, i) ==
    IF log = << >> THEN << >>
    ELSE (IF Head(log).index = i THEN << Head(log).fragment >> ELSE << >>)
         \o FragmentsFor(Tail(log), i)

\* ------------------------------------------------------- stream processing
\* st = [buf, content, thinking, tcs, ev, contentLog, argLog]

RECURSIVE GrowTo(_, _)
\* while (m_accumulatedToolCalls.size() <= index) append(emptyTc)
GrowTo(tcs, index) == IF Len(tcs) <= index THEN GrowTo(Append(tcs, EmptySlot), index) ELSE tcs

\* a slot that keeps only the last fragment
AppendArgumentsReplace(existingArgs, fragment) == fragment

\* existingArgs += funcDelta["arguments"].toString()
AppendArguments(existingArgs, fragment) == existingArgs \o fragment

\* one element of delta.tool_calls applied to the accumulator
\* With a negative index nothing grows, the read of the slot yields an empty
\* object (QJsonArray::at checks its range) and the write goes through
\* QJsonValueRef to a position outside the array: where the process
\* survives that, the array is as before.
ApplyToolDelta(tcs, tc) ==
    LET index == toInt(tc.index)
        grown == GrowTo(tcs, index)
    IN  IF index < 0 THEN grown
        ELSE
        LET existingTc == grown[index + 1]
            withId == IF tc.id # "" THEN [existingTc EXCEPT !.id = tc.id] ELSE existingTc
            withName == IF tc.name # "" THEN [withId EXCEPT !.name = tc.name] ELSE withId
            withArgs == [withName EXCEPT !.arguments = AppendArguments(@, tc.arguments)]
        IN  [grown EXCEPT ![index + 1] = withArgs]

RECURSIVE ApplyToolDeltas(_, _)
ApplyToolDeltas(tcs, deltas) ==
    IF deltas = << >> THEN tcs
    ELSE ApplyToolDeltas(ApplyToolDelta(tcs, Head(deltas)), Tail(deltas))

\* content that is put in front of what was accumulated
AppendContentFront(acc, contentChunk) == contentChunk \o acc

\* m_accumulatedContent += contentChunk
AppendContent(acc, contentChunk) == acc \o contentChunk

\* a chunk handler that throws the accumulated reply away on an error record
processStreamingChunkErrorResets(st, chunk) ==
    IF chunk.hasError
    THEN [st EXCEPT !.ev = Append(@, "errorOccurred"),
                    !.content = << >>, !.thinking = << >>, !.tcs = << >>]
    ELSE IF chunk.choices = << >> THEN st
    ELSE
    LET delta == chunk.choices[1]
        s1 == IF delta.hasContent /\ delta.content # << >>
              THEN [st EXCEPT !.content = AppendContent(@, delta.content),
                              !.ev = Append(@, "streamingChunkReceived")]
              ELSE st
        thinkingChunk == IF delta.hasReasoning THEN delta.reasoning ELSE delta.thinking
        s2 == IF (delta.hasReasoning \/ delta.hasThinking) /\ thinkingChunk # << >>
              THEN [s1 EXCEPT !.thinking = @ \o thinkingChunk,
                              !.ev = Append(@, "thinkingChunkReceived")]
              ELSE s1
    IN  [s2 EXCEPT !.tcs = ApplyToolDeltas(@, delta.tool_calls)]

\* a chunk handler that reports a record without choices as an error
processStreamingChunkNoChoicesError(st, chunk) ==
    IF chunk.hasError THEN [st EXCEPT !.ev = Append(@, "errorOccurred")]
    ELSE IF chunk.choices = << >> THEN [st EXCEPT !.ev = Append(@, "errorOccurred")]
    ELSE
    LET delta == chunk.choices[1]
        s1 == IF delta.hasContent /\ delta.content # << >>
              THEN [st EXCEPT !.content = AppendContent(@, delta.content),
                              !.ev = Append(@, "streamingChunkReceived")]
              ELSE st
        thinkingChunk == IF delta.hasReasoning THEN delta.reasoning ELSE delta.thinking
        s2 == IF (delta.hasReasoning \/ delta.hasThinking) /\ thinkingChunk # << >>
              THEN [s1 EXCEPT !.thinking = @ \o thinkingChunk,
                              !.ev = Append(@, "thinkingChunkReceived")]
              ELSE s1
    IN  [s2 EXCEPT !.tcs = ApplyToolDeltas(@, delta.tool_calls)]

processStreamingChunk(st, chunk) ==
    IF chunk.hasError THEN [st EXCEPT !.ev = Append(@, "errorOccurred")]
    ELSE IF chunk.choices = << >> THEN st
    ELSE
    LET delta == chunk.choices[1]
        s1 == IF delta.hasContent /\ delta.content # << >>
              THEN [st EXCEPT !.content = AppendContent(@, delta.content),
                              !.ev = Append(@, "streamingChunkReceived")]
              ELSE st
        thinkingChunk == IF delta.hasReasoning THEN delta.reasoning ELSE delta.thinking
        s2 == IF (delta.hasReasoning \/ delta.hasThinking) /\ thinkingChunk # << >>
              THEN [s1 EXCEPT !.thinking = @ \o thinkingChunk,
                              !.ev = Append(@, "thinkingChunkReceived")]
              ELSE s1
    IN  [s2 EXCEPT !.tcs = ApplyToolDeltas(@, delta.tool_calls)]

\* QJsonDocument::fromJson(line) is an object
IsJsonObject(line) == Len(line) = 1 /\ line[1].t = "json"

RECURSIVE ReadLoop(_)
\* the while(true) loop of onStreamingReadyRead
ReadLoop(st) ==
    LET dataIndex == IndexOf(st.buf, << Prefix >>, 1) IN
    IF dataIndex = 0 THEN st
    ELSE
    LET endIndex == IndexOf(st.buf, << Newline >>, dataIndex) IN
    IF endIndex = 0 THEN st
    ELSE
    LET line == SubSeq(st.buf, dataIndex + 1, endIndex - 1)
        s1 == [st EXCEPT !.buf = SubSeq(st.buf, endIndex + 1, Len(st.buf))]
    IN  IF line = << >> THEN ReadLoop(s1)
        ELSE IF line = << Done >> THEN ReadLoop([s1 EXCEPT !.ev = Append(@, "streamingFinished")])
        ELSE IF ~IsJsonObject(line) THEN ReadLoop(s1)
        ELSE ReadLoop(processStreamingChunk(
                          [s1 EXCEPT !.contentLog = LogContent(@, line[1].doc),
                                     !.argLog = LogArguments(@, line[1].doc)],
                          line[1].doc))

\* a loop that queues the accumulated slots last to first
ParseToolCallsReversed(toolCalls) ==
    [k \in 1..Len(toolCalls) |->
        LET tc == toolCalls[Len(toolCalls) + 1 - k]
        IN  ToolCall(tc.id, tc.name, JsonObjectOf(tc.arguments))]

\* the loop of handleToolCalls: one ToolCall per accumulated slot
ParseToolCalls(toolCalls) ==
    [k \in 1..Len(toolCalls) |->
        ToolCall(toolCalls[k].id, toolCalls[k].name, JsonObjectOf(toolCalls[k].arguments))]

\* -------------------------------------------------------------------- Init
ApiKeys == {"", "sk"}
UserTexts == { <<"u">> }

Init ==
    /\ m_apiKey \in ApiKeys
    /\ m_isProcessing = FALSE
    /\ m_conversationHistory = << >>
    /\ m_pendingToolCalls = << >>
    /\ m_currentToolCallIndex = 0
    /\ m_currentReply = 0
    /\ m_streamBuffer = << >>
    /\ m_accumulatedContent = << >>
    /\ m_accumulatedThinking = << >>
    /\ m_accumulatedToolCalls = << >>
    /\ m_isStreaming = FALSE
    /\ replies = << >>
    /\ reads = 0
    /\ tempo = DefaultTempo
    /\ tracks = << >>
    /\ call = NoCall
    /\ wire = NoWire
    /\ fed = NoneFed
    /\ panel = NewPanel
    /\ playing = FALSE
    /\ scroll = NewScroll
    /\ pc = "loop"
    /\ frame = NoFrame
    /\ emitted = << >>
    /\ last = [op |-> "init", r |-> 0, accepted |-> FALSE, from |-> "loop", busy |-> FALSE]
    /\ ghost = [between |-> FALSE, paired |-> TRUE, contentLog |-> << >>, argLog |-> << >>,
                handed |-> ToolCall("", "", EmptyObject), slot |-> 0,
                cancelledInLoop |-> FALSE]

\* the step being taken: the operation, the reply it concerns, whether it was
\* accepted (a send) or delivered to a slot (a notification), and where the
\* manager was when it was taken
Step(op, r, accepted) ==
    [op |-> op, r |-> r, accepted |-> accepted, from |-> pc, busy |-> m_isProcessing]

isConfigured == m_apiKey # ""

\* ------------------------------------------------------ manager operations
\* ------------------------------------------------------- request payload
\* systemPrompt(): a fixed text (its .arg() has no place marker to fill)
systemPrompt == << "p" >>

\* the JSON object built for one transcript message
JsonMessage(msg) ==
    IF msg.role = "tool"
    THEN { <<"role", msg.role>>, <<"tool_call_id", msg.toolCallId>>, <<"content", msg.content>> }
    ELSE IF msg.role = "assistant" /\ msg.toolCalls # << >>
    THEN { <<"role", msg.role>>, <<"content", msg.content>>, <<"tool_calls", msg.toolCalls>> }
    ELSE { <<"role", msg.role>>, <<"content", msg.content>> }

\* a payload without the system message
buildRequestPayloadNoSystem(history) ==
    [stream |-> TRUE,
     messages |-> [i \in 1..Len(history) |-> JsonMessage(history[i])],
     tools |-> RegisteredNames]

\* buildRequestPayload() over the transcript `history`; tools holds the names
\* of the definitions getToolDefinitions() returns
buildRequestPayload(history) ==
    [stream |-> TRUE,
     messages |-> << { <<"role", "system">>, <<"content", systemPrompt>> } >>
                      \o [i \in 1..Len(history) |-> JsonMessage(history[i])],
     tools |-> RegisteredNames]

\* a request whose streamingStarted goes out ahead of the caller's signals
sendApiRequestStartedFirst(ev, g) ==
    /\ m_streamBuffer' = << >>
    /\ m_accumulatedContent' = << >>
    /\ m_accumulatedThinking' = << >>
    /\ m_accumulatedToolCalls' = << >>
    /\ m_isStreaming' = TRUE
    /\ replies' = Append(replies, NewReply(buildRequestPayload(m_conversationHistory')))
    /\ m_currentReply' = Len(replies) + 1
    /\ emitted' = << "streamingStarted" >> \o ev
    /\ ghost' = TrackEvents([g EXCEPT !.contentLog = << >>, !.argLog = << >>], emitted')

\* a request that keeps the content accumulated by the stream before it
sendApiRequestKeepsContent(ev, g) ==
    /\ m_streamBuffer' = << >>
    /\ m_accumulatedContent' = m_accumulatedContent
    /\ m_accumulatedThinking' = << >>
    /\ m_accumulatedToolCalls' = << >>
    /\ m_isStreaming' = TRUE
    /\ replies' = Append(replies, NewReply(buildRequestPayload(m_conversationHistory')))
    /\ m_currentReply' = Len(replies) + 1
    /\ emitted' = Append(ev, "streamingStarted")
    /\ ghost' = TrackEvents([g EXCEPT !.contentLog = << >>, !.argLog = << >>], emitted')

\* sendApiRequest(), after the signals ev were emitted by its caller
sendApiRequest(ev, g) ==
    /\ m_streamBuffer' = << >>
    /\ m_accumulatedContent' = << >>
    /\ m_accumulatedThinking' = << >>
    /\ m_accumulatedToolCalls' = << >>
    /\ m_isStreaming' = TRUE
    /\ replies' = Append(replies, NewReply(buildRequestPayload(m_conversationHistory')))
    /\ m_currentReply' = Len(replies) + 1
    /\ emitted' = Append(ev, "streamingStarted")
    /\ ghost' = TrackEvents([g EXCEPT !.contentLog = << >>, !.argLog = << >>], emitted')

setApiKey(apiKey) ==
    /\ m_apiKey' = apiKey
    /\ emitted' = << >>
    /\ last' = Step("setApiKey", 0, TRUE)
    /\ UNCHANGED << m_isProcessing, m_conversationHistory, m_pendingToolCalls,
                    m_currentToolCallIndex, m_currentReply, m_streamBuffer,
                    m_accumulatedContent, m_accumulatedThinking, m_accumulatedToolCalls,
                    m_isStreaming, replies, reads, tempo, pc, frame, ghost >>

\* a send that goes ahead while a request is being processed
sendRejectedNotBusy == ~isConfigured

\* a send that goes ahead without an API key
sendRejectedUnconfigured == m_isProcessing

\* the two early returns of sendMessage
sendRejected == ~isConfigured \/ m_isProcessing

\* a send that, when refused, still records the user's text in the transcript
sendMessageKeepsText(userMessage) ==
    IF sendRejected
    THEN /\ emitted' = << "errorOccurred" >>
         /\ last' = Step("sendMessage", 0, FALSE)
         /\ m_conversationHistory' =
                Append(m_conversationHistory, ChatMessage("user", userMessage, "", "", << >>))
         /\ UNCHANGED << m_apiKey, m_isProcessing, m_pendingToolCalls,
                         m_currentToolCallIndex, m_currentReply, m_streamBuffer,
                         m_accumulatedContent, m_accumulatedThinking, m_accumulatedToolCalls,
                         m_isStreaming, replies, reads, tempo, pc, frame, ghost >>
    ELSE /\ Len(replies) + (IF pc = "loop" THEN 0 ELSE 1) < MaxReplies
         /\ m_conversationHistory' =
                Append(m_conversationHistory, ChatMessage("user", userMessage, "", "", << >>))
         /\ m_isProcessing' = TRUE
         /\ sendApiRequest(<< "processingStarted" >>, [ghost EXCEPT !.cancelledInLoop = FALSE])
         /\ last' = Step("sendMessage", Len(replies) + 1, TRUE)
         /\ UNCHANGED << m_apiKey, m_pendingToolCalls, m_currentToolCallIndex, reads, tempo, pc, frame >>

sendMessage(userMessage) ==
    IF sendRejected
    THEN /\ emitted' = << "errorOccurred" >>
         /\ last' = Step("sendMessage", 0, FALSE)
         /\ UNCHANGED << m_apiKey, m_isProcessing, m_conversationHistory, m_pendingToolCalls,
                         m_currentToolCallIndex, m_currentReply, m_streamBuffer,
                         m_accumulatedContent, m_accumulatedThinking, m_accumulatedToolCalls,
                         m_isStreaming, replies, reads, tempo, pc, frame, ghost >>
    ELSE /\ Len(replies) + (IF pc = "loop" THEN 0 ELSE 1) < MaxReplies
         /\ m_conversationHistory' =
                Append(m_conversationHistory, ChatMessage("user", userMessage, "", "", << >>))
         /\ m_isProcessing' = TRUE
         /\ sendApiRequest(<< "processingStarted" >>, [ghost EXCEPT !.cancelledInLoop = FALSE])
         /\ last' = Step("sendMessage", Len(replies) + 1, TRUE)
         /\ UNCHANGED << m_apiKey, m_pendingToolCalls, m_currentToolCallIndex, reads, tempo, pc, frame >>

\* an abort that leaves the reply's signals connected
AbortCurrentConnected(rs, cur) ==
    IF cur = 0 THEN rs
    ELSE [rs EXCEPT ![cur] = [@ EXCEPT !.status = "aborted", !.request = NoRequest]]

\* the reply objects after cancelCurrentRequest: the current one is
\* disconnected from the manager and aborted
AbortCurrent(rs, cur) ==
    IF cur = 0 THEN rs
    ELSE [rs EXCEPT ![cur] = [@ EXCEPT !.status = "aborted", !.connected = FALSE,
                                     !.request = NoRequest]]

\* a cancel that always reports the end of processing
cancelSignalsAlways == << "processingFinished" >>

\* if (m_isProcessing) { m_isProcessing = false; emit processingFinished(); }
cancelSignals == IF m_isProcessing THEN << "processingFinished" >> ELSE << >>

\* a cancel that releases the stream but leaves m_isProcessing set
cancelKeepsProcessing(g) ==
    /\ replies' = AbortCurrent(replies, m_currentReply)
    /\ m_currentReply' = 0
    /\ m_isStreaming' = FALSE
    /\ m_streamBuffer' = << >>
    /\ m_accumulatedContent' = << >>
    /\ m_accumulatedThinking' = << >>
    /\ m_accumulatedToolCalls' = << >>
    /\ m_isProcessing' = m_isProcessing
    /\ emitted' = << >>
    /\ ghost' = TrackEvents([g EXCEPT !.cancelledInLoop = (pc # "loop")], emitted')

\* a cancel that leaves the unparsed SSE input in m_streamBuffer
cancelKeepsBuffer(g) ==
    /\ replies' = AbortCurrent(replies, m_currentReply)
    /\ m_currentReply' = 0
    /\ m_isStreaming' = FALSE
    /\ m_streamBuffer' = m_streamBuffer
    /\ m_accumulatedContent' = << >>
    /\ m_accumulatedThinking' = << >>
    /\ m_accumulatedToolCalls' = << >>
    /\ m_isProcessing' = FALSE
    /\ emitted' = cancelSignals
    /\ ghost' = TrackEvents([g EXCEPT !.cancelledInLoop = (pc # "loop")], emitted')

cancelCurrentRequest(g) ==
    /\ replies' = AbortCurrent(replies, m_currentReply)
    /\ m_currentReply' = 0
    /\ m_isStreaming' = FALSE
    /\ m_streamBuffer' = << >>
    /\ m_accumulatedContent' = << >>
    /\ m_accumulatedThinking' = << >>
    /\ m_accumulatedToolCalls' = << >>
    /\ m_isProcessing' = FALSE
    /\ emitted' = cancelSignals
    /\ ghost' = TrackEvents([g EXCEPT !.cancelledInLoop = (pc # "loop")], emitted')

\* a cancel that takes the last message back out of the transcript
cancelDropsLastMessage ==
    /\ cancelCurrentRequest(ghost)
    /\ last' = Step("cancel", m_currentReply, TRUE)
    /\ m_conversationHistory' =
           SubSeq(m_conversationHistory, 1, Len(m_conversationHistory) - 1)
    /\ UNCHANGED << m_apiKey, m_pendingToolCalls,
                    m_currentToolCallIndex, reads, tempo, pc, frame >>

cancel ==
    /\ cancelCurrentRequest(ghost)
    /\ last' = Step("cancel", m_currentReply, TRUE)
    /\ UNCHANGED << m_apiKey, m_conversationHistory, m_pendingToolCalls,
                    m_currentToolCallIndex, reads, tempo, pc, frame >>

\* a clear that empties the transcript without cancelling the request
clearHistoryWithoutCancel ==
    /\ emitted' = << >>
    /\ m_conversationHistory' = << >>
    /\ m_pendingToolCalls' = << >>
    /\ m_currentToolCallIndex' = 0
    /\ frame' = [frame EXCEPT !.valid = FALSE]
    /\ last' = Step("clearHistory", m_currentReply, TRUE)
    /\ UNCHANGED << m_apiKey, reads, tempo, pc, replies, m_currentReply, m_isStreaming,
                    m_streamBuffer, m_accumulatedContent, m_accumulatedThinking,
                    m_accumulatedToolCalls, m_isProcessing, ghost >>

clearHistory ==
    /\ cancelCurrentRequest(ghost)
    /\ m_conversationHistory' = << >>
    /\ m_pendingToolCalls' = << >>
    /\ m_currentToolCallIndex' = 0
    /\ frame' = [frame EXCEPT !.valid = FALSE]
    /\ last' = Step("clearHistory", m_currentReply, TRUE)
    /\ UNCHANGED << m_apiKey, reads, tempo, pc >>

\* ------------------------------------------------------------- slots
\* onStreamingReadyRead, run for a readyRead signal of reply r carrying `chunk`.
\* The slot reads m_currentReply->readAll(): the bytes of another reply
\* stay in that reply.
onStreamingReadyRead(r, chunk) ==
    IF m_currentReply = 0
    THEN /\ emitted' = << >>
         /\ UNCHANGED << m_streamBuffer, m_accumulatedContent, m_accumulatedThinking,
                         m_accumulatedToolCalls, ghost >>
    ELSE LET data == IF r = m_currentReply THEN chunk ELSE << >>
             st == ReadLoop([buf |-> m_streamBuffer \o data,
                             content |-> m_accumulatedContent,
                             thinking |-> m_accumulatedThinking,
                             tcs |-> m_accumulatedToolCalls,
                             ev |-> << >>,
                             contentLog |-> ghost.contentLog,
                             argLog |-> ghost.argLog])
         IN  /\ m_streamBuffer' = st.buf
             /\ m_accumulatedContent' = st.content
             /\ m_accumulatedThinking' = st.thinking
             /\ m_accumulatedToolCalls' = st.tcs
             /\ emitted' = st.ev
             /\ ghost' = TrackEvents([ghost EXCEPT !.contentLog = st.contentLog,
                                                   !.argLog = st.argLog], emitted')

\* the transport has bytes for reply r
ReadyRead(r, chunk) ==
    /\ pc = "loop"
    /\ replies[r].status \in {"open", "aborted"}
    /\ reads < MaxReads
    /\ reads' = reads + 1
    /\ last' = Step("readyRead", r, replies[r].connected)
    /\ IF replies[r].connected
       THEN onStreamingReadyRead(r, chunk)
       ELSE /\ emitted' = << >>
            /\ UNCHANGED << m_streamBuffer, m_accumulatedContent, m_accumulatedThinking,
                            m_accumulatedToolCalls, ghost >>
    /\ UNCHANGED << m_apiKey, m_isProcessing, m_conversationHistory, m_pendingToolCalls,
                    m_currentToolCallIndex, m_currentReply, m_isStreaming, replies, tempo, pc, frame >>

\* the reply objects after the transport finished r and the slot called
\* deleteLater() on cur (0: the slot did not run or returned early)
FinishReply(rs, r, cur) ==
    [k \in 1..Len(rs) |->
        IF k = r THEN [rs[k] EXCEPT !.status = "done", !.request = NoRequest]
        ELSE IF k = cur THEN [rs[k] EXCEPT !.status = "deleted", !.connected = FALSE,
                                                !.request = NoRequest]
        ELSE rs[k]]

\* a completion that drops the accumulated text of a message with tool calls
onStreamingFinishedDropsText(r, error) ==
    IF m_currentReply = 0
    THEN /\ replies' = FinishReply(replies, r, 0)
         /\ emitted' = << >>
         /\ UNCHANGED << m_isProcessing, m_conversationHistory, m_pendingToolCalls,
                         m_currentToolCallIndex, m_currentReply, m_isStreaming, pc, frame, ghost >>
    ELSE
    /\ replies' = FinishReply(replies, r, m_currentReply)
    /\ m_currentReply' = 0
    /\ m_isStreaming' = FALSE
    /\ IF error
       THEN /\ m_isProcessing' = FALSE
            /\ emitted' = << "processingFinished", "errorOccurred" >>
            /\ UNCHANGED << m_conversationHistory, m_pendingToolCalls,
                            m_currentToolCallIndex, pc, frame >>
       ELSE IF m_accumulatedToolCalls # << >>
       THEN \* assistant message, handleToolCalls, executeToolCall up to its first signal
            /\ Len(replies) < MaxReplies
            /\ m_conversationHistory' =
                   Append(m_conversationHistory,
                          ChatMessage("assistant", << >>, "", "",
                                      m_accumulatedToolCalls))
            /\ m_pendingToolCalls' = ParseToolCalls(m_accumulatedToolCalls)
            /\ m_currentToolCallIndex' = 0
            /\ frame' = [call |-> m_pendingToolCalls'[1], valid |-> TRUE]
            /\ emitted' = << "toolCallStarted" >>
            /\ pc' = "emitStarted"
            /\ UNCHANGED m_isProcessing
       ELSE IF m_accumulatedContent # << >>
       THEN /\ m_conversationHistory' =
                   Append(m_conversationHistory,
                          ChatMessage("assistant", m_accumulatedContent, "", "", << >>))
            /\ m_isProcessing' = FALSE
            /\ emitted' = << "processingFinished", "responseReceived" >>
            /\ UNCHANGED << m_pendingToolCalls, m_currentToolCallIndex, pc, frame >>
       ELSE /\ m_isProcessing' = FALSE
            /\ emitted' = << "processingFinished" >>
            /\ UNCHANGED << m_conversationHistory, m_pendingToolCalls,
                            m_currentToolCallIndex, pc, frame >>
    /\ ghost' = TrackEvents(ghost, emitted')

\* a completion that appends the answer without announcing it
onStreamingFinishedSilent(r, error) ==
    IF m_currentReply = 0
    THEN /\ replies' = FinishReply(replies, r, 0)
         /\ emitted' = << >>
         /\ UNCHANGED << m_isProcessing, m_conversationHistory, m_pendingToolCalls,
                         m_currentToolCallIndex, m_currentReply, m_isStreaming, pc, frame, ghost >>
    ELSE
    /\ replies' = FinishReply(replies, r, m_currentReply)
    /\ m_currentReply' = 0
    /\ m_isStreaming' = FALSE
    /\ IF error
       THEN /\ m_isProcessing' = FALSE
            /\ emitted' = << "processingFinished", "errorOccurred" >>
            /\ UNCHANGED << m_conversationHistory, m_pendingToolCalls,
                            m_currentToolCallIndex, pc, frame >>
       ELSE IF m_accumulatedToolCalls # << >>
       THEN \* assistant message, handleToolCalls, executeToolCall up to its first signal
            /\ Len(replies) < MaxReplies
            /\ m_conversationHistory' =
                   Append(m_conversationHistory,
                          ChatMessage("assistant", m_accumulatedContent, "", "",
                                      m_accumulatedToolCalls))
            /\ m_pendingToolCalls' = ParseToolCalls(m_accumulatedToolCalls)
            /\ m_currentToolCallIndex' = 0
            /\ frame' = [call |-> m_pendingToolCalls'[1], valid |-> TRUE]
            /\ emitted' = << "toolCallStarted" >>
            /\ pc' = "emitStarted"
            /\ UNCHANGED m_isProcessing
       ELSE IF m_accumulatedContent # << >>
       THEN /\ m_conversationHistory' =
                   Append(m_conversationHistory,
                          ChatMessage("assistant", m_accumulatedContent, "", "", << >>))
            /\ m_isProcessing' = FALSE
            /\ emitted' = << "processingFinished" >>
            /\ UNCHANGED << m_pendingToolCalls, m_currentToolCallIndex, pc, frame >>
       ELSE /\ m_isProcessing' = FALSE
            /\ emitted' = << "processingFinished" >>
            /\ UNCHANGED << m_conversationHistory, m_pendingToolCalls,
                            m_currentToolCallIndex, pc, frame >>
    /\ ghost' = TrackEvents(ghost, emitted')

\* a completion slot that reports a transport error and stays busy
onStreamingFinishedErrorStaysBusy(r, error) ==
    IF m_currentReply = 0
    THEN /\ replies' = FinishReply(replies, r, 0)
         /\ emitted' = << >>
         /\ UNCHANGED << m_isProcessing, m_conversationHistory, m_pendingToolCalls,
                         m_currentToolCallIndex, m_currentReply, m_isStreaming, pc, frame, ghost >>
    ELSE
    /\ replies' = FinishReply(replies, r, m_currentReply)
    /\ m_currentReply' = 0
    /\ m_isStreaming' = FALSE
    /\ IF error
       THEN /\ emitted' = << "errorOccurred" >>
            /\ UNCHANGED << m_isProcessing, m_conversationHistory, m_pendingToolCalls,
                            m_currentToolCallIndex, pc, frame >>
       ELSE IF m_accumulatedToolCalls # << >>
       THEN \* assistant message, handleToolCalls, executeToolCall up to its first signal
            /\ Len(replies) < MaxReplies
            /\ m_conversationHistory' =
                   Append(m_conversationHistory,
                          ChatMessage("assistant", m_accumulatedContent, "", "",
                                      m_accumulatedToolCalls))
            /\ m_pendingToolCalls' = ParseToolCalls(m_accumulatedToolCalls)
            /\ m_currentToolCallIndex' = 0
            /\ frame' = [call |-> m_pendingToolCalls'[1], valid |-> TRUE]
            /\ emitted' = << "toolCallStarted" >>
            /\ pc' = "emitStarted"
            /\ UNCHANGED m_isProcessing
       ELSE IF m_accumulatedContent # << >>
       THEN /\ m_conversationHistory' =
                   Append(m_conversationHistory,
                          ChatMessage("assistant", m_accumulatedContent, "", "", << >>))
            /\ m_isProcessing' = FALSE
            /\ emitted' = << "processingFinished", "responseReceived" >>
            /\ UNCHANGED << m_pendingToolCalls, m_currentToolCallIndex, pc, frame >>
       ELSE /\ m_isProcessing' = FALSE
            /\ emitted' = << "processingFinished" >>
            /\ UNCHANGED << m_conversationHistory, m_pendingToolCalls,
                            m_currentToolCallIndex, pc, frame >>
    /\ ghost' = TrackEvents(ghost, emitted')

\* onStreamingFinished with m_currentReply->error() = error
onStreamingFinished(r, error) ==
    IF m_currentReply = 0
    THEN /\ replies' = FinishReply(replies, r, 0)
         /\ emitted' = << >>
         /\ UNCHANGED << m_isProcessing, m_conversationHistory, m_pendingToolCalls,
                         m_currentToolCallIndex, m_currentReply, m_isStreaming, pc, frame, ghost >>
    ELSE
    /\ replies' = FinishReply(replies, r, m_currentReply)
    /\ m_currentReply' = 0
    /\ m_isStreaming' = FALSE
    /\ IF error
       THEN /\ m_isProcessing' = FALSE
            /\ emitted' = << "processingFinished", "errorOccurred" >>
            /\ UNCHANGED << m_conversationHistory, m_pendingToolCalls,
                            m_currentToolCallIndex, pc, frame >>
       ELSE IF m_accumulatedToolCalls # << >>
       THEN \* assistant message, handleToolCalls, executeToolCall up to its first signal
            /\ Len(replies) < MaxReplies
            /\ m_conversationHistory' =
                   Append(m_conversationHistory,
                          ChatMessage("assistant", m_accumulatedContent, "", "",
                                      m_accumulatedToolCalls))
            /\ m_pendingToolCalls' = ParseToolCalls(m_accumulatedToolCalls)
            /\ m_currentToolCallIndex' = 0
            /\ frame' = [call |-> m_pendingToolCalls'[1], valid |-> TRUE]
            /\ emitted' = << "toolCallStarted" >>
            /\ pc' = "emitStarted"
            /\ UNCHANGED m_isProcessing
       ELSE IF m_accumulatedContent # << >>
       THEN /\ m_conversationHistory' =
                   Append(m_conversationHistory,
                          ChatMessage("assistant", m_accumulatedContent, "", "", << >>))
            /\ m_isProcessing' = FALSE
            /\ emitted' = << "processingFinished", "responseReceived" >>
            /\ UNCHANGED << m_pendingToolCalls, m_currentToolCallIndex, pc, frame >>
       ELSE /\ m_isProcessing' = FALSE
            /\ emitted' = << "processingFinished" >>
            /\ UNCHANGED << m_conversationHistory, m_pendingToolCalls,
                            m_currentToolCallIndex, pc, frame >>
    /\ ghost' = TrackEvents(ghost, emitted')

\* a completion whose slot does not look at the reply's error()
FinishedIgnoresError(r, error) ==
    /\ pc = "loop"
    /\ replies[r].status \in {"open", "aborted"}
    /\ replies[r].status = "aborted" => error
    /\ last' = Step(IF error THEN "failed" ELSE "finished", r, replies[r].connected)
    /\ IF replies[r].connected
       THEN onStreamingFinished(r, FALSE)
       ELSE /\ replies' = FinishReply(replies, r, 0)
            /\ emitted' = << >>
            /\ UNCHANGED << m_isProcessing, m_conversationHistory, m_pendingToolCalls,
                            m_currentToolCallIndex, m_currentReply, m_isStreaming, pc, frame, ghost >>
    /\ UNCHANGED << m_apiKey, m_streamBuffer, m_accumulatedContent, m_accumulatedThinking,
                    m_accumulatedToolCalls, reads, tempo >>

\* the transport finished reply r, with a network error or without
Finished(r, error) ==
    /\ pc = "loop"
    /\ replies[r].status \in {"open", "aborted"}
    /\ replies[r].status = "aborted" => error
    /\ last' = Step(IF error THEN "failed" ELSE "finished", r, replies[r].connected)
    /\ IF replies[r].connected
       THEN onStreamingFinished(r, IF r = m_currentReply THEN error ELSE FALSE)
       ELSE /\ replies' = FinishReply(replies, r, 0)
            /\ emitted' = << >>
            /\ UNCHANGED << m_isProcessing, m_conversationHistory, m_pendingToolCalls,
                            m_currentToolCallIndex, m_currentReply, m_isStreaming, pc, frame, ghost >>
    /\ UNCHANGED << m_apiKey, m_streamBuffer, m_accumulatedContent, m_accumulatedThinking,
                    m_accumulatedToolCalls, reads, tempo >>

\* ------------------------------------------------------------- tool loop
\* what reading `toolCall` yields: the referenced element, or, once the
\* vector it points into was cleared, any value
GarbageCalls == { ToolCall("", "", EmptyObject), ToolCall("c1", "get_tempo", EmptyObject) }
Referenced == IF frame.valid THEN { frame.call } ELSE GarbageCalls \cup { frame.call }

\* a tool message that carries the tool's name where the call id belongs
toolMessageNameAsId(toolCall, text) == ChatMessage("tool", text, toolCall.name, toolCall.name, << >>)

\* the ChatMessage executeToolCall appends
toolMessage(toolCall, text) == ChatMessage("tool", text, toolCall.id, toolCall.name, << >>)

\* executeToolCall from the return of toolCallStarted to the emission of toolCallCompleted
ToolRun ==
    /\ pc = "emitStarted"
    /\ \E toolCall \in Referenced :
         LET out == executeTool(toolCall.name, toolCall.arguments, tempo)
             text == IF out.res.success THEN out.res.result ELSE out.res.error
         IN  /\ tempo' = out.tempo
             /\ playing' = PlayingAfter(out)
             /\ m_conversationHistory' =
                    Append(m_conversationHistory, toolMessage(toolCall, text))
             /\ emitted' = << "toolCallCompleted" >>
             /\ ghost' = TrackEvents([ghost EXCEPT !.handed = toolCall,
                                                   !.slot = m_currentToolCallIndex], emitted')
    /\ pc' = "emitCompleted"
    /\ last' = Step("toolRun", 0, frame.valid)
    /\ UNCHANGED << m_apiKey, m_isProcessing, m_pendingToolCalls, m_currentToolCallIndex,
                    m_currentReply, m_streamBuffer, m_accumulatedContent,
                    m_accumulatedThinking, m_accumulatedToolCalls, m_isStreaming,
                    replies, reads, frame, tracks, call, wire, fed, scroll >>

\* reading through the dangling reference faults
ToolCrash ==
    /\ pc = "emitStarted"
    /\ ~frame.valid
    /\ pc' = "crashed"
    /\ emitted' = << >>
    /\ last' = Step("crash", 0, FALSE)
    /\ UNCHANGED << m_apiKey, m_isProcessing, m_conversationHistory, m_pendingToolCalls,
                    m_currentToolCallIndex, m_currentReply, m_streamBuffer,
                    m_accumulatedContent, m_accumulatedThinking, m_accumulatedToolCalls,
                    m_isStreaming, replies, reads, tempo, tracks, call, wire, fed, playing, scroll,
                    frame, ghost >>

\* a tool loop that reports the end of processing before it re-requests
ToolNextFinishesRound ==
    /\ pc = "emitCompleted"
    /\ UNCHANGED << m_apiKey, m_isProcessing, m_conversationHistory, reads, tempo, tracks,
                    call, wire, fed, playing, scroll >>
    /\ IF m_currentToolCallIndex + 1 < Len(m_pendingToolCalls)
       THEN /\ m_currentToolCallIndex' = m_currentToolCallIndex + 1
            /\ frame' = [call |-> m_pendingToolCalls[m_currentToolCallIndex' + 1], valid |-> TRUE]
            /\ emitted' = << "toolCallStarted" >>
            /\ pc' = "emitStarted"
            /\ ghost' = TrackEvents(ghost, emitted')
            /\ last' = Step("toolNext", 0, TRUE)
            /\ UNCHANGED << m_pendingToolCalls, m_currentReply, m_streamBuffer,
                            m_accumulatedContent, m_accumulatedThinking,
                            m_accumulatedToolCalls, m_isStreaming, replies >>
       ELSE /\ m_pendingToolCalls' = << >>
            /\ m_currentToolCallIndex' = 0
            /\ sendApiRequest(<< "processingFinished" >>, ghost)
            /\ frame' = NoFrame
            /\ pc' = "loop"
            /\ last' = Step("rerequest", Len(replies) + 1, TRUE)

\* executeToolCall from the return of toolCallCompleted: the next call, or the re-request
ToolNext ==
    /\ pc = "emitCompleted"
    /\ UNCHANGED << m_apiKey, m_isProcessing, m_conversationHistory, reads, tempo, tracks,
                    call, wire, fed, playing, scroll >>
    /\ IF m_currentToolCallIndex + 1 < Len(m_pendingToolCalls)
       THEN /\ m_currentToolCallIndex' = m_currentToolCallIndex + 1
            /\ frame' = [call |-> m_pendingToolCalls[m_currentToolCallIndex' + 1], valid |-> TRUE]
            /\ emitted' = << "toolCallStarted" >>
            /\ pc' = "emitStarted"
            /\ ghost' = TrackEvents(ghost, emitted')
            /\ last' = Step("toolNext", 0, TRUE)
            /\ UNCHANGED << m_pendingToolCalls, m_currentReply, m_streamBuffer,
                            m_accumulatedContent, m_accumulatedThinking,
                            m_accumulatedToolCalls, m_isStreaming, replies >>
       ELSE /\ m_pendingToolCalls' = << >>
            /\ m_currentToolCallIndex' = 0
            /\ sendApiRequest(<< >>, ghost)
            /\ frame' = NoFrame
            /\ pc' = "loop"
            /\ last' = Step("rerequest", Len(replies) + 1, TRUE)

\* ------------------------------------------------------------------ Next
\* calls made from the event loop
SendMessage == pc = "loop" /\ (\E t \in UserTexts : sendMessage(t)) /\ UNCHANGED hostVars
Cancel == pc = "loop" /\ cancel /\ UNCHANGED hostVars
ClearHistory == pc = "loop" /\ clearHistory /\ UNCHANGED hostVars
SetApiKey ==
    pc = "loop" /\ (\E k \in ApiKeys \ {""} : k # m_apiKey /\ setApiKey(k)) /\ UNCHANGED hostVars
Receive == (\E r \in 1..Len(replies) : \E c \in Chunks : ReadyRead(r, c)) /\ UNCHANGED hostVars
Complete == (\E r \in 1..Len(replies) : \E e \in BOOLEAN : Finished(r, e)) /\ UNCHANGED hostVars

\* calls made by a subscriber from a slot connected to toolCallStarted or toolCallCompleted
InLoop == pc \in {"emitStarted", "emitCompleted"}
SlotSendMessage == InLoop /\ (\E t \in UserTexts : sendMessage(t)) /\ UNCHANGED hostVars
SlotCancel == InLoop /\ cancel /\ UNCHANGED hostVars
SlotClearHistory == InLoop /\ clearHistory /\ UNCHANGED hostVars

\* the tool round, with no panel looking on
RunTool == ToolRun /\ UNCHANGED panel
NextTool == ToolNext /\ UNCHANGED panel
Crash == ToolCrash /\ UNCHANGED panel

Next ==
    \/ SendMessage \/ Cancel \/ ClearHistory \/ SetApiKey
    \/ Receive \/ Complete
    \/ RunTool \/ NextTool

Spec == Init /\ [][Next]_vars

\* the transport finishes the current reply, with or without error
CompleteCurrent ==
    /\ m_currentReply # 0
    /\ \E e \in BOOLEAN : Finished(m_currentReply, e)
    /\ UNCHANGED hostVars

\* Spec with the scheduling the code relies on: QNetworkReply emits finished
\* for every request it was given, and the tool round is straight-line code
\* that runs on once the slots of its signals return.  The number of
\* requests of a run is bounded, so the server stops asking for tools.
SpecLive ==
    /\ Init /\ [][Next]_vars
    /\ WF_vars(CompleteCurrent)
    /\ WF_vars(RunTool)
    /\ WF_vars(NextTool)

NextReentrant ==
    \/ Next
    \/ SlotSendMessage \/ SlotCancel \/ SlotClearHistory
    \/ Crash

SpecReentrant == Init /\ [][NextReentrant]_vars

\* ------------------------------------------------- the registry on its own
\* what a model may pass as bpm
BpmValues == { -5000, -1, 0, 9, 10, 11, 500, 998, 999, 1000, 1001, 5000 }
TempoInputs ==
    { [name |-> "get_tempo", args |-> EmptyObject], [name |-> "set_tempo", args |-> EmptyObject] }
    \cup { [name |-> "set_tempo", args |-> { <<"bpm", b>> }] : b \in BpmValues }

\* what a model may pass as track_index, and with it
Indexes == -1..MaxTracks
IndexArgs == { EmptyObject } \cup { { <<"track_index", i>> } : i \in Indexes }
NoteArrays ==
    { << { <<"key", 60>>, <<"position", 0>>, <<"length", 48>> } >>,
      << { <<"key", 128>> } >>, << EmptyObject >>,
      << { <<"key", 60>>, <<"position", 0>>, <<"length", 48>>, <<"volume", 101>> } >> }
TrackInputs ==
    { [name |-> "list_tracks", args |-> EmptyObject],
      [name |-> "add_instrument_track", args |-> EmptyObject],
      [name |-> "add_instrument_track", args |-> { <<"name", "lead">> }],
      [name |-> "add_sample_track", args |-> EmptyObject] }
    \cup { [name |-> n, args |-> a] :
             n \in {"get_track_notes", "clear_track_notes", "remove_track"}, a \in IndexArgs }
    \cup { [name |-> "set_track_name", args |-> a \cup x] :
             a \in IndexArgs, x \in { EmptyObject, { <<"name", "lead">> } } }
    \cup { [name |-> "set_track_muted", args |-> a \cup x] :
             a \in IndexArgs, x \in { EmptyObject, { <<"muted", TRUE>> }, { <<"muted", FALSE>> } } }
    \cup { [name |-> "add_notes_to_track", args |-> a \cup x] :
             a \in IndexArgs, x \in { EmptyObject } \cup { { <<"notes", ns>> } : ns \in NoteArrays } }

\* AgentTools::executeTool(name, args) called on the song as it is
Execute(name, args) ==
    LET out == executeToolOnSong(name, args, tempo, tracks) IN
    /\ Len(out.tracks) <= MaxTracks
    /\ \A i \in 1..Len(out.tracks) : Len(out.tracks[i].notes) <= MaxNotes
    /\ tempo' = out.tempo
    /\ tracks' = out.tracks
    /\ playing' = PlayingAfter(IF name \in ToolNames THEN executeTool(name, args, tempo) ELSE out)
    /\ call' = [name |-> name, args |-> args, res |-> out.res]
    /\ UNCHANGED << m_apiKey, m_isProcessing, m_conversationHistory, m_pendingToolCalls,
                    m_currentToolCallIndex, m_currentReply, m_streamBuffer,
                    m_accumulatedContent, m_accumulatedThinking, m_accumulatedToolCalls,
                    m_isStreaming, replies, reads, wire, fed, panel, scroll, pc, frame, emitted, last,
                    ghost >>

TempoCall == \E c \in TempoInputs : Execute(c.name, c.args)
TrackCall == \E c \in TrackInputs : Execute(c.name, c.args)

\* the tempo tools called on their own, and the track and note tools
SpecTempo == Init /\ [][TempoCall]_vars
SpecTracks == Init /\ [][TrackCall]_vars

\* ------------------------------------------------ the SSE parser on its own
\* payloads: ASCII text, a two-byte character, and text holding the prefix
WirePayloads ==
    { << "{", "x", "}" >>, << "{", "C3", "A9", "}" >>, << "{" >> \o DataPrefix \o << "}" >> }

RecordOf(payload) == DataPrefix \o payload \o << "\n", "\n" >>

\* streams of one or two complete records, the second possibly [DONE]
Streams ==
    { RecordOf(p) : p \in WirePayloads }
    \cup { RecordOf(p) \o RecordOf(q) : p \in WirePayloads, q \in WirePayloads \cup { DoneText } }

\* the server starts a stream
WireOpen ==
    /\ wire = NoWire
    /\ \E s \in Streams : wire' = [NoWire EXCEPT !.rest = s, !.whole = s]
    /\ UNCHANGED << m_apiKey, m_isProcessing, m_conversationHistory, m_pendingToolCalls,
                    m_currentToolCallIndex, m_currentReply, m_streamBuffer,
                    m_accumulatedContent, m_accumulatedThinking, m_accumulatedToolCalls,
                    m_isStreaming, replies, reads, tempo, tracks, call, fed, panel, playing, scroll, pc,
                    frame, emitted, last, ghost >>

\* readyRead with the next n bytes of the stream available
WireRead ==
    /\ wire.rest # << >>
    /\ \E n \in 1..Len(wire.rest) :
          LET res == onReadyReadBytes(wire, SubSeq(wire.rest, 1, n)) IN
          wire' = [wire EXCEPT !.rest = SubSeq(wire.rest, n + 1, Len(wire.rest)),
                               !.buf = res.buf,
                               !.out = res.out, !.done = res.done]
    /\ UNCHANGED << m_apiKey, m_isProcessing, m_conversationHistory, m_pendingToolCalls,
                    m_currentToolCallIndex, m_currentReply, m_streamBuffer,
                    m_accumulatedContent, m_accumulatedThinking, m_accumulatedToolCalls,
                    m_isStreaming, replies, reads, tempo, tracks, call, fed, panel, playing, scroll, pc,
                    frame, emitted, last, ghost >>

NextWire == WireOpen \/ WireRead
SpecWire == Init /\ [][NextWire]_vars

\* ------------------------------------------- the chunk handler on its own
\* deltas the server can send: content, reasoning text under either key or
\* under both, and tool-call fragments under every kind of index
DeltaInputs ==
    { ContentDelta(<<"a">>), ReasoningDelta(<<"r">>), ThinkingDelta(<<"t">>),
      [NoDelta EXCEPT !.hasReasoning = TRUE, !.hasThinking = TRUE, !.thinking = <<"t">>],
      [NoDelta EXCEPT !.hasReasoning = TRUE, !.reasoning = <<"r">>,
                      !.hasThinking = TRUE, !.thinking = <<"t">>] }
    \cup { ToolDeltaAt(v, "c", "get_tempo", <<"{">>) :
             v \in { JsonInt(0), JsonInt(2), JsonInt(-1), AbsentValue, StringValue, FractionValue } }

ChunkInputs == { ChunkOf(d) : d \in DeltaInputs } \cup { ErrorChunk, NoChoicesChunk }

\* the indexes the tool-call deltas of a chunk address
Addressed(chunk) ==
    { toInt(DeltaOf(chunk).tool_calls[k].index) : k \in 1..Len(DeltaOf(chunk).tool_calls) }

\* processStreamingChunk(chunk) on the accumulators as they are.  The write
\* to a slot below 0 is outside the array: the process may die there, or go on.
ChunkCall ==
    /\ ~fed.crashed
    /\ Len(fed.chunks) <= MaxReads
    /\ \E chunk \in ChunkInputs :
          LET st == processStreamingChunk([content |-> m_accumulatedContent,
                                           thinking |-> m_accumulatedThinking,
                                           tcs |-> m_accumulatedToolCalls,
                                           ev |-> << >>], chunk)
          IN  \/ /\ m_accumulatedContent' = st.content
                 /\ m_accumulatedThinking' = st.thinking
                 /\ m_accumulatedToolCalls' = st.tcs
                 /\ emitted' = st.ev
                 /\ fed' = [fed EXCEPT !.chunks = Append(@, chunk)]
              \/ /\ \E i \in Addressed(chunk) : i < 0
                 /\ m_accumulatedContent' = st.content
                 /\ m_accumulatedThinking' = st.thinking
                 /\ emitted' = st.ev
                 /\ fed' = [chunks |-> Append(fed.chunks, chunk), crashed |-> TRUE]
                 /\ UNCHANGED m_accumulatedToolCalls
    /\ UNCHANGED << m_apiKey, m_isProcessing, m_conversationHistory, m_pendingToolCalls,
                    m_currentToolCallIndex, m_currentReply, m_streamBuffer,
                    m_isStreaming, replies, reads, tempo, tracks, call, wire, panel, playing, scroll, pc,
                    frame, last, ghost >>

SpecChunk == Init /\ [][ChunkCall]_vars

\* ---------------------------------------------- the manager with its panel
\* the reads of a run with the panel: content, thinking text, tool calls (two
\* of them with argument text that is not a JSON document) and
\* an error record, the end marker alone, after content, before content and
\* twice.  No read holds two fragments of the same kind.
PanelChunks ==
    { << Prefix, Json(ChunkOf(ContentDelta(<<"a">>))), Newline >>,
      << Prefix, Json(ChunkOf(ThinkingDelta(<<"t">>))), Newline >>,
      << Prefix, Json(ChunkOf(ToolDelta(0, "c1", "get_tempo", << >>))), Newline >>,
      << Prefix, Json(ChunkOf(ToolDelta(0, "c1", "set_tempo", <<"{", "b">>))), Newline >>,
      << Prefix, Json(ChunkOf(ToolDelta(0, "c1", "play_project", <<"{">>))), Newline >>,
      << Prefix, Json(ErrorChunk), Newline >>,
      << Prefix, Done, Newline >>,
      << Prefix, Json(ChunkOf(ContentDelta(<<"a">>))), Newline, Prefix, Done, Newline >>,
      << Prefix, Done, Newline, Prefix, Json(ChunkOf(ContentDelta(<<"b">>))), Newline >>,
      << Prefix, Done, Newline, Prefix, Done, Newline >> }

\* the argument the signal carries in the step being taken
ArgumentOf(sig) ==
    CASE sig = "streamingChunkReceived" ->
             SubSeq(m_accumulatedContent', Len(m_accumulatedContent) + 1,
                    Len(m_accumulatedContent'))
      [] sig = "thinkingChunkReceived" ->
             SubSeq(m_accumulatedThinking', Len(m_accumulatedThinking) + 1,
                    Len(m_accumulatedThinking'))
      [] sig = "responseReceived" -> m_accumulatedContent
      [] sig = "toolCallStarted" -> frame'.call.name
      [] sig = "toolCallCompleted" ->
             m_conversationHistory'[Len(m_conversationHistory')].content
      [] sig = "errorOccurred" -> << "!" >>
      [] OTHER -> << >>

\* the signals of the step being taken, with their arguments
Signals == [i \in 1..Len(emitted') |-> [sig |-> emitted'[i], arg |-> ArgumentOf(emitted'[i])]]

\* ChatPanel::onSendMessage with a message typed in; the settings dialog it
\* opens without a key is closed without one
PanelSend ==
    /\ pc = "loop"
    /\ ~panel.m_isProcessing
    /\ Len(panel.widgets) < MaxWidgets
    /\ IF ~isConfigured
       THEN /\ panel' = ChatPanel_onErrorOccurred(panel, << "!" >>)
            /\ emitted' = << >>
            /\ last' = Step("panelSend", 0, FALSE)
            /\ UNCHANGED << m_apiKey, m_isProcessing, m_conversationHistory,
                            m_pendingToolCalls, m_currentToolCallIndex, m_currentReply,
                            m_streamBuffer, m_accumulatedContent, m_accumulatedThinking,
                            m_accumulatedToolCalls, m_isStreaming, replies, reads, tempo,
                            pc, frame, ghost >>
       ELSE \E t \in UserTexts :
               /\ sendMessage(t)
               /\ panel' = Deliver(addMessageWidget(panel, Artifact("user", t, panel)), Signals)
    /\ UNCHANGED songVars

\* ChatPanel::onClearHistory
PanelClearHistory ==
    /\ pc = "loop"
    /\ clearHistory
    /\ panel' = Deliver(resetPanel(panel), Signals)
    /\ UNCHANGED songVars

\* the key is entered in the settings dialog
PanelSetApiKey ==
    pc = "loop" /\ (\E k \in ApiKeys \ {""} : k # m_apiKey /\ setApiKey(k)) /\ UNCHANGED hostVars

PanelReceive ==
    /\ \E r \in 1..Len(replies) : \E c \in PanelChunks : ReadyRead(r, c)
    /\ panel' = Deliver(panel, Signals)
    /\ UNCHANGED songVars

PanelComplete ==
    /\ \E r \in 1..Len(replies) : \E e \in BOOLEAN : Finished(r, e)
    /\ panel' = Deliver(panel, Signals)
    /\ UNCHANGED songVars

PanelRunTool == ToolRun /\ panel' = Deliver(panel, Signals)
PanelNextTool == ToolNext /\ panel' = Deliver(panel, Signals)

NextPanel ==
    \/ PanelSend \/ PanelClearHistory \/ PanelSetApiKey
    \/ PanelReceive \/ PanelComplete
    \/ PanelRunTool \/ PanelNextTool

SpecPanel == Init /\ [][NextPanel]_vars

\* ------------------------------------------------ the scroll bar on its own
scrollRest ==
    << m_apiKey, m_isProcessing, m_conversationHistory, m_pendingToolCalls,
       m_currentToolCallIndex, m_currentReply, m_streamBuffer, m_accumulatedContent,
       m_accumulatedThinking, m_accumulatedToolCalls, m_isStreaming, replies, reads, tempo,
       tracks, call, wire, fed, panel, playing, pc, frame, emitted, last, ghost >>

\* addMessageWidget, updateCurrentStreamingWidgets or finalizeStreamingWidgets:
\* the list may grow by a page, then scrollToBottom()
ScrollAppend ==
    /\ scroll.scrollTimers + Len(scroll.resetTimers) < MaxTimers
    /\ \E grow \in BOOLEAN :
          /\ grow => scroll.grown < MaxGrowth
          /\ scroll' = [scrollToBottom(IF grow
                                       THEN [scroll EXCEPT !.maximum = @ + 100, !.grown = @ + 1]
                                       ELSE scroll)
                           EXCEPT !.op = "append", !.handled = "none"]
    /\ UNCHANGED scrollRest

\* onSendMessage: auto-scroll is switched on, the user's message is added
ScrollSend ==
    /\ scroll.scrollTimers + Len(scroll.resetTimers) < MaxTimers
    /\ scroll.grown < MaxGrowth
    /\ scroll' = [scrollToBottom([scroll EXCEPT !.m_autoScrollEnabled = TRUE,
                                                !.maximum = @ + 100, !.grown = @ + 1])
                     EXCEPT !.op = "send", !.handled = "none"]
    /\ UNCHANGED scrollRest

\* onClearHistory: the messages are marked for deletion, auto-scroll is switched on
ScrollClear ==
    /\ scroll.grown > 0
    /\ scroll' = [scroll EXCEPT !.m_autoScrollEnabled = TRUE, !.cleared = TRUE,
                                !.op = "clear", !.handled = "none"]
    /\ UNCHANGED scrollRest

\* the cleared messages are deleted: the range shrinks and the value with it
RangeShrinks ==
    /\ scroll.cleared
    /\ scroll' = [setValue([scroll EXCEPT !.maximum = 0, !.grown = 0, !.cleared = FALSE], 0)
                     EXCEPT !.op = "shrink"]
    /\ UNCHANGED scrollRest

ScrollTimerFires ==
    /\ scroll.scrollTimers > 0
    /\ scroll' = [scrollTimeout(scroll) EXCEPT !.op = "scrollTimer"]
    /\ UNCHANGED scrollRest

ResetTimerFires ==
    /\ scroll.resetTimers # << >>
    /\ Head(scroll.resetTimers) = 0
    /\ scroll' = [resetTimeout(scroll) EXCEPT !.op = "resetTimer", !.handled = "none"]
    /\ UNCHANGED scrollRest

\* the user moves the slider
UserScroll ==
    /\ \E v \in Positions(scroll) \ { scroll.value } :
          scroll' = [setValue(scroll, v) EXCEPT !.op = "user"]
    /\ UNCHANGED scrollRest

NextScroll ==
    \/ ScrollAppend \/ ScrollSend \/ ScrollClear \/ RangeShrinks
    \/ ScrollTimerFires \/ ResetTimerFires \/ UserScroll

SpecScroll == Init /\ [][NextScroll]_vars

\* ================================================================ properties
InFlight == { r \in 1..Len(replies) : replies[r].status = "open" }

Answered(h) ==
    \A i \in 1..Len(h) :
        (h[i].role = "assistant" /\ h[i].toolCalls # << >>) =>
            LET k == Len(h[i].toolCalls) IN
            /\ i + k <= Len(h)
            /\ \A j \in 1..k : /\ h[i + j].role = "tool"
                               /\ h[i + j].toolCallId = h[i].toolCalls[j].id
            /\ (i + k < Len(h) => h[i + k + 1].role # "tool")

TurnCompleted == last.op = "finished" /\ last.accepted /\ ~m_isProcessing /\ pc = "loop"

\* C3: after a turn completes normally the tool calls of every assistant
\* message in the transcript are answered, contiguously and in order.
C3_ToolCallsAnswered == TurnCompleted => Answered(m_conversationHistory)

\* a turn completed whose transcript holds an assistant message with two tool calls
C3_Witness ==
    /\ TurnCompleted
    /\ \E i \in 1..Len(m_conversationHistory) : Len(m_conversationHistory[i].toolCalls) = 2

\* C4: while a request is open and when it ends, the accumulated content is
\* the concatenation, in arrival order, of the content fragments of its
\* delta records.
C4_ContentIsConcatenation ==
    (m_currentReply # 0 \/ last.op = "finished") =>
        m_accumulatedContent = Flatten(ghost.contentLog)

\* a stream ended after two content fragments
C4_Witness ==
    /\ last.op = "finished" /\ last.accepted
    /\ Len(ghost.contentLog) = 2
    /\ ghost.contentLog[1] # ghost.contentLog[2]

\* C5: the arguments handed to the registry for slot i are the JSON parse of
\* the concatenation of the fragments delivered for index i.
C5_ArgumentsAreParsedConcatenation ==
    (last.op = "toolRun" /\ last.accepted) =>
        ghost.handed.arguments = JsonObjectOf(Flatten(FragmentsFor(ghost.argLog, ghost.slot)))

\* a tool ran on arguments that arrived in two fragments
C5_Witness ==
    /\ last.op = "toolRun" /\ last.accepted
    /\ ghost.handed.arguments # EmptyObject
    /\ Len(FragmentsFor(ghost.argLog, ghost.slot)) = 2

\* C6: once cancel() returns, is_processing is false, no stream handle is
\* open and the four accumulators are empty.
C6_CancelLeavesIdle ==
    last.op = "cancel" =>
        /\ ~m_isProcessing
        /\ m_currentReply = 0
        /\ m_accumulatedContent = << >>
        /\ m_accumulatedThinking = << >>
        /\ m_accumulatedToolCalls = << >>
        /\ m_streamBuffer = << >>

\* cancel() was called by a subscriber while the tool loop was in progress
C6_Witness == last.op = "cancel" /\ last.from = "emitStarted" /\ last.busy

ManagerState == << m_isProcessing, m_conversationHistory, m_pendingToolCalls,
                   m_currentToolCallIndex, m_currentReply, m_streamBuffer,
                   m_accumulatedContent, m_accumulatedThinking, m_accumulatedToolCalls,
                   m_isStreaming, tempo >>

\* C7: a cancel with a stream open emits processingFinished; bytes and the
\* completion of the aborted stream emit nothing and change nothing; and the
\* next send is accepted and opens a new request.
C7_CancelMidStream ==
    [][ /\ (last'.op = "cancel" /\ m_currentReply # 0) =>
              emitted' = << "processingFinished" >>
        /\ (last'.op \in {"readyRead", "finished", "failed"}
                /\ replies[last'.r].status = "aborted") =>
              (emitted' = << >> /\ UNCHANGED ManagerState)
        /\ (last'.op = "sendMessage" /\ last.op = "cancel" /\ isConfigured) =>
              /\ last'.accepted
              /\ m_currentReply' = Len(replies) + 1
              /\ replies'[m_currentReply'].status = "open"
      ]_vars

\* bytes of an aborted stream arrive while the request of a later send is open
C7_Witness ==
    /\ last.op = "readyRead" /\ ~last.accepted
    /\ last.r # m_currentReply /\ m_currentReply # 0
    /\ m_isProcessing

\* C8: after cancel() took effect during the tool loop, the pending tool
\* calls are cleared and no request is open until the next send.
C8_CancelSuppressesReentry ==
    ghost.cancelledInLoop => (m_pendingToolCalls = << >> /\ m_currentReply = 0)

\* C9: cancel() while idle emits nothing and leaves transcript and
\* is_processing as they were.
C9_IdleCancelIsSilent ==
    [][ (last'.op = "cancel" /\ ~m_isProcessing /\ pc = "loop") =>
            /\ emitted' = << >>
            /\ m_conversationHistory' = m_conversationHistory
            /\ ~m_isProcessing'
      ]_vars

\* cancel() was called while idle, with a transcript to preserve
C9_Witness == last.op = "cancel" /\ ~last.busy /\ m_conversationHistory # << >>

\* C10: a send without an API key emits an error and nothing else; no
\* message is appended, is_processing stays false, no request is opened.
C10_UnconfiguredSendRejected ==
    [][ (last'.op = "sendMessage" /\ ~isConfigured) =>
            /\ emitted' = << "errorOccurred" >>
            /\ m_conversationHistory' = m_conversationHistory
            /\ ~m_isProcessing'
            /\ replies' = replies
            /\ m_currentReply' = m_currentReply
      ]_vars

\* a send was rejected for the missing key
C10_Witness == last.op = "sendMessage" /\ ~last.accepted /\ ~isConfigured

\* C11: a send while is_processing is true emits an error and is dropped:
\* transcript, accumulators, pending tool calls, the open stream and
\* is_processing are unchanged and no request is opened.
C11_BusySendDropped ==
    [][ (last'.op = "sendMessage" /\ m_isProcessing) =>
            /\ emitted' = << "errorOccurred" >>
            /\ UNCHANGED << m_conversationHistory, m_streamBuffer, m_accumulatedContent,
                            m_accumulatedThinking, m_accumulatedToolCalls,
                            m_pendingToolCalls, m_currentToolCallIndex,
                            m_currentReply, m_isStreaming, m_isProcessing, replies >>
      ]_vars

\* a configured send was refused while a stream with accumulated content was open
C11_Witness ==
    /\ last.op = "sendMessage" /\ ~last.accepted /\ last.busy /\ isConfigured
    /\ m_currentReply # 0 /\ replies[m_currentReply].status = "open"
    /\ m_accumulatedContent # << >>


\* C12: a send while configured and idle appends exactly one user message
\* with the given text at the end of the transcript, sets is_processing,
\* emits processingStarted and then streamingStarted, and opens exactly one
\* streaming request.
C12_IdleSendOpensOneRequest ==
    [][ (last'.op = "sendMessage" /\ isConfigured /\ ~m_isProcessing) =>
            /\ \E t \in UserTexts :
                   m_conversationHistory' =
                       Append(m_conversationHistory, ChatMessage("user", t, "", "", << >>))
            /\ m_isProcessing'
            /\ emitted' = << "processingStarted", "streamingStarted" >>
            /\ Len(replies') = Len(replies) + 1
            /\ \A r \in 1..Len(replies) : replies'[r] = replies[r]
            /\ m_currentReply' = Len(replies')
            /\ replies'[m_currentReply'] = NewReply(buildRequestPayload(m_conversationHistory'))
      ]_vars

\* a send was accepted with an earlier exchange already in the transcript
C12_Witness ==
    /\ last.op = "sendMessage" /\ last.accepted /\ ~last.busy
    /\ Len(m_conversationHistory) > 1
    /\ m_currentReply = Len(replies)


C14_ResponseBeforeFinished ==
    (last.op = "finished" /\ \E i \in 1..Len(emitted) : emitted[i] = "responseReceived") =>
        /\ emitted[Len(emitted)] = "processingFinished"
        /\ \A i, j \in 1..Len(emitted) :
               (emitted[i] = "responseReceived" /\ emitted[j] = "processingFinished") => i < j


Emits(sig) == \E i \in 1..Len(emitted) : emitted[i] = sig

LastToolRound(h) ==
    LET is == { i \in 1..Len(h) : h[i].role = "assistant" /\ h[i].toolCalls # << >> }
    IN  IF is = {} THEN 0 ELSE CHOOSE i \in is : \A j \in is : j <= i

\* the transcript ends with the answers to the first n calls of the last
\* tool round, in slot order
AnsweredUpTo(h, n) ==
    LET a == LastToolRound(h) IN
    /\ a > 0
    /\ Len(h) = a + n
    /\ n <= Len(h[a].toolCalls)
    /\ \A j \in 1..n : /\ h[a + j].role = "tool"
                       /\ h[a + j].toolCallId = h[a].toolCalls[j].id
                       /\ h[a + j].name = h[a].toolCalls[j].name

\* C16: the tool calls of one stream run one at a time in ascending slot
\* order: when toolCallStarted of slot i is emitted the calls before i are
\* answered and no others; toolCallCompleted of slot i follows the registry
\* call and the append of its tool message; and the next request is opened
\* only after the last call completed.
C16_ToolCallsSerial ==
    /\ pc = "emitStarted" =>
           /\ emitted = << "toolCallStarted" >>
           /\ frame.call = m_pendingToolCalls[m_currentToolCallIndex + 1]
           /\ AnsweredUpTo(m_conversationHistory, m_currentToolCallIndex)
           /\ m_currentReply = 0
    /\ pc = "emitCompleted" =>
           /\ emitted = << "toolCallCompleted" >>
           /\ ghost.handed = m_pendingToolCalls[m_currentToolCallIndex + 1]
           /\ ghost.slot = m_currentToolCallIndex
           /\ AnsweredUpTo(m_conversationHistory, m_currentToolCallIndex + 1)
           /\ m_currentReply = 0
    /\ pc # "loop" =>
           Len(m_pendingToolCalls) =
               Len(m_conversationHistory[LastToolRound(m_conversationHistory)].toolCalls)
    /\ last.op = "rerequest" =>
           /\ emitted = << "streamingStarted" >>
           /\ LET h == m_conversationHistory
              IN  AnsweredUpTo(h, Len(h[LastToolRound(h)].toolCalls))

\* the second of two different calls was started after the first was answered
C16_Witness ==
    /\ pc = "emitStarted" /\ last.op = "toolNext"
    /\ m_currentToolCallIndex = 1
    /\ m_pendingToolCalls[1].name # m_pendingToolCalls[2].name
    /\ m_conversationHistory[Len(m_conversationHistory)].toolCallId = m_pendingToolCalls[1].id


\* C17: when the open stream completes with a transport error, errorOccurred
\* is emitted, is_processing becomes false and the handle is released; the
\* transcript, with the turn's user message, is left as it was, so nothing
\* of the accumulated content or tool calls is appended, and no tool runs.
C17_TransportErrorEndsTurn ==
    [][ (last'.op = "failed" /\ last'.accepted /\ last'.r = m_currentReply) =>
            /\ emitted' = << "processingFinished", "errorOccurred" >>
            /\ ~m_isProcessing'
            /\ m_currentReply' = 0
            /\ ~m_isStreaming'
            /\ replies'[last'.r].status = "done"
            /\ m_conversationHistory' = m_conversationHistory
            /\ \E i \in 1..Len(m_conversationHistory') : m_conversationHistory'[i].role = "user"
            /\ pc' = "loop"
            /\ m_pendingToolCalls' = << >>
            /\ tempo' = tempo
      ]_vars

\* a stream failed after content and a tool call had been accumulated
C17_Witness ==
    /\ last.op = "failed" /\ last.accepted
    /\ m_accumulatedContent # << >>
    /\ m_accumulatedToolCalls # << >>
    /\ m_conversationHistory[Len(m_conversationHistory)].role = "user"
    /\ ~m_isProcessing


\* C18: a tool call with an unregistered name leaves the host untouched;
\* its tool message carries "Unknown tool: <name>"; only toolCallCompleted
\* is emitted, no errorOccurred; and the loop goes on to the next call or
\* to the re-request.
C18_UnknownToolReported ==
    [][ /\ (last'.op = "toolRun" /\ frame.call.name \notin ToolNames) =>
              /\ tempo' = tempo
              /\ m_conversationHistory' =
                     Append(m_conversationHistory,
                            ChatMessage("tool", << "Unknown tool: ", frame.call.name >>,
                                        frame.call.id, frame.call.name, << >>))
              /\ emitted' = << "toolCallCompleted" >>
              /\ m_isProcessing'
        /\ (last.op = "toolRun" /\ ghost.handed.name \notin ToolNames) =>
              \/ last'.op = "toolNext" /\ emitted' = << "toolCallStarted" >>
              \/ /\ last'.op = "rerequest" /\ emitted' = << "streamingStarted" >>
                 /\ m_currentReply' # 0 /\ replies'[m_currentReply'].status = "open"
                 /\ m_isProcessing'
      ]_vars

\* the request that follows an unknown tool's answer is open
C18_Witness ==
    /\ last.op = "rerequest"
    /\ ghost.handed.name = "nope"
    /\ m_conversationHistory[Len(m_conversationHistory)].content = << "Unknown tool: ", "nope" >>
    /\ m_currentReply # 0


\* C19: set_tempo with a bpm below 10 or above 999 returns the error
\* "BPM must be between 10 and 999, got <bpm>" and leaves the tempo as it
\* was; with a bpm from 10 to 999 it succeeds and the tempo becomes bpm.
C19_TempoRange ==
    [][ (call'.name = "set_tempo" /\ Contains(call'.args, "bpm")) =>
            LET bpm == Value(call'.args, "bpm") IN
            IF bpm < 10 \/ bpm > 999
            THEN /\ call'.res = ToolResult(FALSE, << >>,
                                  << "BPM must be between 10 and 999, got ", ToString(bpm) >>)
                 /\ tempo' = tempo
            ELSE /\ call'.res.success
                 /\ call'.res.error = << >>
                 /\ tempo' = bpm
      ]_vars

\* 1000 was refused after the tempo had been set to 999
C19_Witness ==
    /\ call.name = "set_tempo" /\ call.args = { <<"bpm", 1000>> }
    /\ ~call.res.success
    /\ tempo = 999


\* the tools that take a track_index: rename, mute, add notes, list notes,
\* clear notes, remove
TrackIndexTools ==
    { "set_track_name", "set_track_muted", "add_notes_to_track", "get_track_notes",
      "clear_track_notes", "remove_track" }

\* the last call carried the parameters its tool requires
RequiredGiven ==
    /\ Contains(call.args, "track_index")
    /\ call.name = "set_track_name" => Contains(call.args, "name")
    /\ call.name = "set_track_muted" => Contains(call.args, "muted")
    /\ call.name = "add_notes_to_track" => Contains(call.args, "notes")

\* the last call was to one of `names` with a track_index outside the song
\* and was answered with "Invalid track index: N"
IndexRejected(names) ==
    (call.name \in names /\ RequiredGiven) =>
        LET N == Value(call.args, "track_index") IN
        (N < 0 \/ N >= Len(tracks)) => call.res = InvalidTrackIndex(N)

\* C20: every tool that takes a track_index (rename, mute, add notes, list
\* notes, clear notes, remove) answers an index N < 0 or N >= the number of
\* tracks with the error "Invalid track index: N".
C20_InvalidIndexRejected == IndexRejected(TrackIndexTools)


\* C21: the registry holds a track-remove tool: it is listed among the tool
\* definitions and a call to it reaches the remove handler instead of
\* being answered with "Unknown tool".
C21_RemoveToolRegistered ==
    call.name = "remove_track" =>
        /\ call.name \in RegisteredNames
        /\ call.res.error # << "Unknown tool: ", call.name >>


\* C22: a stream that ends without transport error and with accumulated
\* tool calls appends one assistant message carrying the accumulated content
\* and the accumulated tool calls as they are, emits no responseReceived,
\* keeps is_processing true and enters the tool loop at the first call.
C22_ToolCallsEnterLoop ==
    (last.op = "finished" /\ last.accepted /\ m_accumulatedToolCalls # << >>) =>
        LET h == m_conversationHistory IN
        /\ h[Len(h)] = ChatMessage("assistant", m_accumulatedContent, "", "",
                                    m_accumulatedToolCalls)
        /\ Len(h) > 1 /\ h[Len(h) - 1].role # "assistant"
        /\ ~Emits("responseReceived") /\ ~Emits("processingFinished")
        /\ emitted = << "toolCallStarted" >>
        /\ m_isProcessing
        /\ pc = "emitStarted"
        /\ m_currentToolCallIndex = 0
        /\ m_pendingToolCalls = ParseToolCalls(m_accumulatedToolCalls)
        /\ m_currentReply = 0

\* a stream ended with text and a tool call
C22_Witness ==
    /\ last.op = "finished" /\ last.accepted
    /\ m_accumulatedToolCalls # << >> /\ m_accumulatedContent # << >>
    /\ pc = "emitStarted"


\* C23: a stream that ends without transport error and without tool calls
\* appends an assistant message and emits responseReceived exactly when the
\* accumulated content is non-empty; either way is_processing becomes false
\* and no request is opened.
C23_AnswerIffContent ==
    (last.op = "finished" /\ last.accepted /\ m_accumulatedToolCalls = << >>) =>
        LET h == m_conversationHistory IN
        /\ ~m_isProcessing
        /\ m_currentReply = 0
        /\ InFlight = {}
        /\ pc = "loop"
        /\ ~Emits("streamingStarted")
        /\ IF m_accumulatedContent # << >>
           THEN /\ h[Len(h)] = ChatMessage("assistant", m_accumulatedContent, "", "", << >>)
                /\ h[Len(h) - 1].role # "assistant"
                /\ Emits("responseReceived")
           ELSE /\ h[Len(h)].role # "assistant"
                /\ ~Emits("responseReceived")

\* a stream that delivered only thinking text ended: nothing to answer with
C23_Witness ==
    /\ last.op = "finished" /\ last.accepted
    /\ m_accumulatedToolCalls = << >> /\ m_accumulatedContent = << >>
    /\ m_accumulatedThinking # << >>
    /\ ~m_isProcessing


IsPrefix(s, t) == Len(s) <= Len(t) /\ SubSeq(t, 1, Len(s)) = s

\* C24: a read that dispatches a record with a top-level error emits
\* errorOccurred and does not end the stream: is_processing stays true, the
\* reply stays open and current, nothing accumulated is lost, and the
\* records after it are accumulated as usual.
C24_ErrorRecordKeepsStream ==
    [][ (last'.op = "readyRead" /\ last'.accepted
            /\ \E i \in 1..Len(emitted') : emitted'[i] = "errorOccurred") =>
            /\ m_isProcessing /\ m_isProcessing'
            /\ m_currentReply' = m_currentReply /\ m_currentReply # 0
            /\ replies' = replies /\ replies[m_currentReply].status = "open"
            /\ m_isStreaming'
            /\ m_conversationHistory' = m_conversationHistory
            /\ IsPrefix(m_accumulatedContent, m_accumulatedContent')
            /\ IsPrefix(m_accumulatedThinking, m_accumulatedThinking')
            /\ Len(m_accumulatedToolCalls) <= Len(m_accumulatedToolCalls')
            /\ emitted' = << "errorOccurred" >> =>
                   UNCHANGED << m_accumulatedContent, m_accumulatedThinking,
                                m_accumulatedToolCalls >>
            /\ m_accumulatedContent' = Flatten(ghost'.contentLog)
      ]_vars

\* one read carried an error record and then a content record, after
\* content had already been accumulated
C24_Witness ==
    /\ last.op = "readyRead" /\ last.accepted
    /\ emitted = << "errorOccurred", "streamingChunkReceived" >>
    /\ m_accumulatedContent = << "a", "b" >>
    /\ m_isProcessing /\ m_currentReply # 0


\* the records the parser passes over
SkippedRecords ==
    { << Prefix, p, Newline >> : p \in { Junk, JsonArray, Json(NoChoicesChunk) } }

\* records that can follow a skipped one: content, a tool-call fragment, an
\* error record and the end marker
FollowingRecords ==
    { << Prefix, p, Newline >> :
        p \in { Json(ChunkOf(ContentDelta(<<"b">>))),
                Json(ChunkOf(ToolDelta(0, "", "", <<"1", "2", "}">>))),
                Json(ErrorChunk), Done } }

\* the read loop run on the manager's present state with `data` appended
ReadNow(buf, data) ==
    ReadLoop([buf |-> buf \o data, content |-> m_accumulatedContent,
              thinking |-> m_accumulatedThinking, tcs |-> m_accumulatedToolCalls,
              ev |-> << >>, contentLog |-> ghost.contentLog, argLog |-> ghost.argLog])

\* C25: whenever a stream is current, a record whose payload is not JSON, is
\* JSON but not an object, or is an object without choices is consumed
\* without any signal and without touching the content, thinking or
\* tool-call accumulators, and the record that follows it in the same read
\* is processed exactly as it would be on its own.
C25_ProtocolErrorsSkipped ==
    m_currentReply # 0 =>
        \A skip \in SkippedRecords :
            LET st == ReadNow(m_streamBuffer, skip) IN
            /\ st.ev = << >>
            /\ st.buf = << >>
            /\ st.content = m_accumulatedContent
            /\ st.thinking = m_accumulatedThinking
            /\ st.tcs = m_accumulatedToolCalls
            /\ \A next \in FollowingRecords :
                   LET both == ReadNow(m_streamBuffer, skip \o next)
                       alone == ReadNow(<< >>, next)
                   IN  /\ both.ev = alone.ev
                       /\ both.content = alone.content
                       /\ both.thinking = alone.thinking
                       /\ both.tcs = alone.tcs
                       /\ both.buf = << >>

\* a read that carried only a skipped record has run after content had been
\* accumulated: nothing was emitted and the content is still there
C25_Witness ==
    /\ last.op = "readyRead" /\ last.accepted /\ m_currentReply # 0
    /\ reads = 2
    /\ emitted = << >> /\ m_streamBuffer = << >>
    /\ m_accumulatedContent = << "a" >>
    /\ m_accumulatedThinking = << >> /\ m_accumulatedToolCalls = << >>


\* the whole stream handed to the parser in one read
OneRead(stream) == onReadyReadBytes(NoWire, stream)

\* C26: however the bytes of a stream of complete records are split across
\* reads, the payloads dispatched so far are an initial part of those
\* dispatched when the whole stream arrives in one read, and once every byte
\* has arrived the dispatched payloads, the end markers seen and the text
\* left in raw_buffer are the same as after one read.
C26_SplitEquivalence ==
    wire # NoWire =>
        LET one == OneRead(wire.whole) IN
        /\ IsPrefix(wire.out, one.out)
        /\ wire.rest = << >> =>
              /\ wire.out = one.out
              /\ wire.done = one.done
              /\ wire.buf = one.buf


\* C27: the body posted with a request holds the system message followed by
\* every transcript message in order (one more entry than the transcript);
\* a tool message carries its tool_call_id and content, an assistant message
\* with tool calls carries its content and its tool_calls array.
C27_PayloadMirrorsTranscript ==
    (last.op \in { "sendMessage", "rerequest" } /\ last.accepted) =>
        LET h == m_conversationHistory
            body == replies[Len(replies)].request
            msgs == body.messages
        IN  /\ body.stream
            /\ Len(msgs) = 1 + Len(h)
            /\ msgs[1] = { <<"role", "system">>, <<"content", systemPrompt>> }
            /\ \A i \in 1..Len(h) :
                  LET j == msgs[i + 1] IN
                  /\ Value(j, "role") = h[i].role
                  /\ Value(j, "content") = h[i].content
                  /\ Contains(j, "tool_call_id") <=> h[i].role = "tool"
                  /\ h[i].role = "tool" => Value(j, "tool_call_id") = h[i].toolCallId
                  /\ Contains(j, "tool_calls") <=>
                        (h[i].role = "assistant" /\ h[i].toolCalls # << >>)
                  /\ Contains(j, "tool_calls") => Value(j, "tool_calls") = h[i].toolCalls

\* a re-request was posted with a transcript holding a user message, an
\* assistant message with tool calls and a tool result
C27_Witness ==
    /\ last.op = "rerequest" /\ last.accepted
    /\ \E i \in 1..Len(m_conversationHistory) :
          m_conversationHistory[i].role = "assistant" /\ m_conversationHistory[i].toolCalls # << >>
    /\ m_conversationHistory[Len(m_conversationHistory)].role = "tool"
    /\ Len(replies[Len(replies)].request.messages) >= 4


\* C28: the accumulators live for one request.  When a request is opened,
\* by a send or by the re-request after a tool round, content, thinking,
\* tool-call slots and raw_buffer are empty; and the assistant message
\* appended when a stream ends holds exactly the content fragments and the
\* tool-call argument fragments dispatched since that request was opened.
C28_AccumulatorsPerRequest ==
    LET h == m_conversationHistory IN
    /\ (last.op \in { "sendMessage", "rerequest" } /\ last.accepted) =>
          /\ m_accumulatedContent = << >>
          /\ m_accumulatedThinking = << >>
          /\ m_accumulatedToolCalls = << >>
          /\ m_streamBuffer = << >>
    /\ (last.op = "finished" /\ last.accepted /\ h # << >> /\ h[Len(h)].role = "assistant") =>
          /\ h[Len(h)].content = Flatten(ghost.contentLog)
          /\ \A k \in 1..Len(h[Len(h)].toolCalls) :
                h[Len(h)].toolCalls[k].arguments = Flatten(FragmentsFor(ghost.argLog, k - 1))
          /\ \A e \in 1..Len(ghost.argLog) :
                ghost.argLog[e].index < Len(h[Len(h)].toolCalls)

\* a re-request was opened after a stream that had accumulated content and
\* tool calls
C28_Witness ==
    /\ last.op = "rerequest" /\ last.accepted
    /\ m_accumulatedContent = << >> /\ m_accumulatedToolCalls = << >>
    /\ \E i \in 1..Len(m_conversationHistory) :
          /\ m_conversationHistory[i].role = "assistant"
          /\ m_conversationHistory[i].content # << >>
          /\ m_conversationHistory[i].toolCalls # << >>


\* C29: the transcript is append-only except for clearHistory: a send, a
\* read, a stream end (with or without error), a tool execution and a cancel
\* leave every message already in the transcript in place and unchanged;
\* a tool result appended before a cancel stays.
C29_TranscriptAppendOnly ==
    [][ last'.op # "clearHistory" =>
            IsPrefix(m_conversationHistory, m_conversationHistory') ]_vars

\* a cancel made from a slot during the tool round, after a tool result had
\* been appended
C29_Witness ==
    /\ last.op = "cancel" /\ last.from = "emitCompleted"
    /\ m_conversationHistory # << >>
    /\ m_conversationHistory[Len(m_conversationHistory)].role = "tool"


\* C30: after an accepted send, with every opened stream completing and the
\* server not asking for tools forever, processingFinished is eventually
\* emitted and the manager is back in Idle: not processing, no stream open,
\* no tool round under way.
C30_TurnTerminates ==
    (last.op = "sendMessage" /\ last.accepted) ~>
        (/\ ~m_isProcessing /\ m_currentReply = 0 /\ pc = "loop"
         /\ m_pendingToolCalls = << >>
         /\ Emits("processingFinished"))

\* a turn that went through a tool round and a second stream has ended
C30_Witness ==
    /\ last.op = "finished" /\ last.accepted /\ last.r = 2
    /\ ~m_isProcessing /\ m_currentReply = 0 /\ pc = "loop"
    /\ Emits("processingFinished")
    /\ \E i \in 1..Len(m_conversationHistory) : m_conversationHistory[i].role = "tool"


RECURSIVE ThinkingFragments(_)
\* the non-empty strings the chunks carry under "reasoning" or "thinking"
ThinkingFragments(chunks) ==
    IF chunks = << >> THEN << >>
    ELSE LET d == DeltaOf(Head(chunks)) IN
         (IF d.hasReasoning /\ d.reasoning # << >> THEN << d.reasoning >> ELSE << >>)
         \o (IF d.hasThinking /\ d.thinking # << >> THEN << d.thinking >> ELSE << >>)
         \o ThinkingFragments(Tail(chunks))

\* C31: thinking_text is the concatenation of the non-empty strings that
\* arrived under "reasoning" or "thinking", whichever key each arrived under,
\* and a delta carrying such a string emits thinkingChunkReceived.
C31_ThinkingEitherKey ==
    ~fed.crashed =>
        /\ m_accumulatedThinking = Flatten(ThinkingFragments(fed.chunks))
        /\ (fed.chunks # << >>
              /\ ThinkingFragments(<< fed.chunks[Len(fed.chunks)] >>) # << >>) =>
                 \E i \in 1..Len(emitted) : emitted[i] = "thinkingChunkReceived"


\* ------------------------------------------------- claims about the panel
\* the artifacts of kind `kind` created during stream n
ArtifactsOf(kind, n) ==
    { i \in 1..Len(panel.widgets) :
          panel.widgets[i].kind = kind /\ panel.widgets[i].stream = n }

\* the signal delivered last in the step that led here
LastSignal == IF emitted = << >> THEN "" ELSE emitted[Len(emitted)]

\* C32: when responseReceived is delivered, the content of the stream it
\* closes is shown in exactly one assistant-text artifact, and that artifact
\* holds the response.
C32_OneAssistantArtifact ==
    Emits("responseReceived") =>
        /\ Cardinality(ArtifactsOf("assistant", panel.streams)) = 1
        /\ \A i \in ArtifactsOf("assistant", panel.streams) :
               panel.widgets[i].text = m_accumulatedContent

\* C33: the live thinking and content handles are null right after
\* streamingStarted and right after streamingFinished; a stream has at most
\* one thinking and one content artifact; right after a content delta the
\* content artifact holds all the content accumulated in the stream; and a
\* live handle only ever points at an artifact of the current stream.
C33_StreamArtifacts ==
    /\ LastSignal \in {"streamingStarted", "streamingFinished"} =>
           panel.m_currentThinkingWidget = 0 /\ panel.m_currentContentWidget = 0
    /\ \A n \in 0..panel.streams :
           /\ Cardinality(ArtifactsOf("thinking", n)) <= 1
           /\ Cardinality(ArtifactsOf("assistant", n)) <= 1
    /\ LastSignal = "streamingChunkReceived" =>
           /\ panel.m_currentContentWidget # 0
           /\ panel.widgets[panel.m_currentContentWidget].text = m_accumulatedContent
    /\ \A h \in {panel.m_currentThinkingWidget, panel.m_currentContentWidget} \ {0} :
           panel.widgets[h].stream = panel.streams

\* C37: when the completion of a stream is acted on, with or without a
\* transport error, exactly one streamingFinished has been emitted since the
\* stream's streamingStarted.
C37_OneFinishedPerStream ==
    (last.op \in {"finished", "failed"} /\ emitted # << >>) => panel.finishedSeen = 1


\* ---------------------------------------------- claims about tool-call slots
\* C38: after processStreamingChunk has grown the accumulator for a
\* tool_calls delta, every slot index it addressed lies inside the
\* accumulator, whatever the server sent as index.
C38_AddressedSlotInRange ==
    fed.chunks # << >> =>
        \A i \in Addressed(fed.chunks[Len(fed.chunks)]) :
            0 <= i /\ i < Len(m_accumulatedToolCalls)


\* the largest slot index among the tool_calls entries logged, -1 if none
LargestIndex(log) ==
    IF log = << >> THEN -1
    ELSE CHOOSE i \in { log[e].index : e \in 1..Len(log) } :
             \A e \in 1..Len(log) : log[e].index <= i

\* the slots for which no tool_calls entry arrived
GapSlots(tcs, log) == { k \in 1..Len(tcs) : \A e \in 1..Len(log) : log[e].index # k - 1 }

\* the position of the last assistant message of the transcript, 0 if none
LastAssistant(h) ==
    IF \E a \in 1..Len(h) : h[a].role = "assistant"
    THEN CHOOSE a \in 1..Len(h) :
             h[a].role = "assistant" /\ \A b \in (a + 1)..Len(h) : h[b].role # "assistant"
    ELSE 0

\* C39: while a stream is live the accumulator has (largest index seen + 1)
\* slots; a slot no entry addressed keeps empty id, name and arguments; and
\* when the tool round of
\* a stream is over, the assistant message is followed by one tool message
\* per slot, the one of a slot with empty id and name being
\* "Unknown tool: " with an empty tool_call_id.
C39_GapSlotsExecuted ==
    /\ m_currentReply # 0 =>
           /\ Len(m_accumulatedToolCalls) = LargestIndex(ghost.argLog) + 1
           /\ \A k \in GapSlots(m_accumulatedToolCalls, ghost.argLog) :
                  /\ m_accumulatedToolCalls[k].id = ""
                  /\ m_accumulatedToolCalls[k].name = ""
                  /\ m_accumulatedToolCalls[k].arguments = << >>
    /\ last.op = "rerequest" =>
           LET h == m_conversationHistory
               a == LastAssistant(h)
           IN  /\ a > 0
               /\ Len(h) - a = Len(h[a].toolCalls)
               /\ \A k \in 1..(Len(h) - a) :
                      /\ h[a + k].role = "tool"
                      /\ h[a + k].toolCallId = h[a].toolCalls[k].id
                      /\ h[a].toolCalls[k].name = "" =>
                             h[a + k].content = << "Unknown tool: ", "" >>

\* a stream left slot 0 as a gap and the round ran it and the slot after it
C39_Witness ==
    /\ last.op = "rerequest"
    /\ LET h == m_conversationHistory
           a == LastAssistant(h)
       IN  /\ a > 0
           /\ Len(h[a].toolCalls) = 2
           /\ h[a].toolCalls[1] = EmptySlot
           /\ h[a].toolCalls[2].name = "nope"
           /\ Len(h) = a + 2
           /\ h[a + 1] = ChatMessage("tool", << "Unknown tool: ", "" >>, "", "", << >>)


\* argument text that opens and closes like a JSON object
LooksLikeObject(text) == Len(text) >= 2 /\ text[1] = "{" /\ text[Len(text)] = "}"

\* the accumulated argument text of the slot whose call ran last
TextOfRunSlot ==
    LET h == m_conversationHistory
    IN  h[LastAssistant(h)].toolCalls[ghost.slot + 1].arguments

\* C40: a slot whose accumulated arguments are not a JSON object is still
\* dispatched, with an empty argument object: set_tempo answers with its
\* missing-parameter error, get_tempo and play_project execute, play_project
\* starting playback, and the tool message holds the tool's own answer.
C40_InvalidArgumentsDispatched ==
    (last.op = "toolRun" /\ ~LooksLikeObject(TextOfRunSlot)) =>
        LET msg == m_conversationHistory[Len(m_conversationHistory)]
        IN  /\ ghost.handed.arguments = EmptyObject
            /\ msg.role = "tool"
            /\ ghost.handed.name = "set_tempo" =>
                   msg.content = <<"Missing required parameter: bpm">> /\ tempo = DefaultTempo
            /\ ghost.handed.name = "get_tempo" =>
                   msg.content = <<"{\"bpm\":", ToString(tempo), "}">>
            /\ ghost.handed.name = "play_project" =>
                   /\ playing
                   /\ msg.content \in
                          { <<"{\"message\":\"Project playback started\",\"status\":\"playing\"}">>,
                            <<"{\"status\": \"already_playing\", \"message\": \"Project is already playing\"}">> }

\* play_project ran on the argument text "{" and the song plays
C40_Witness ==
    /\ last.op = "toolRun"
    /\ TextOfRunSlot = << "{" >>
    /\ ghost.handed = ToolCall("c1", "play_project", EmptyObject)
    /\ playing


\* ------------------------------------------------------ claims about notes
\* a note object that gives key, position and length, with the key in the
\* MIDI range and the volume, if given, in 0..100
Acceptable(noteObj) ==
    /\ Contains(noteObj, "key") /\ Contains(noteObj, "position") /\ Contains(noteObj, "length")
    /\ Value(noteObj, "key") \in 0..127
    /\ Contains(noteObj, "volume") => Value(noteObj, "volume") \in 0..100

\* C36: add_notes_to_track adds exactly the notes that give key, position
\* and length with the key in 0..127 and the volume in 0..100, and reports
\* their number as notes_added.
C36_NotesValidated ==
    [][ (call'.name = "add_notes_to_track" /\ call'.res.success) =>
            LET i == IntOf(call'.args, "track_index") + 1
                given == Value(call'.args, "notes")
                added == SubSeq(tracks'[i].notes, Len(tracks[i].notes) + 1, Len(tracks'[i].notes))
            IN  /\ Len(added) = Cardinality({ k \in 1..Len(given) : Acceptable(given[k]) })
                /\ \A n \in 1..Len(added) :
                       added[n].key \in 0..127 /\ added[n].volume \in 0..100
                /\ call'.res.result = << "Added ", ToString(Len(added)), " notes to track '",
                                         tracks[i].name, "'" >> ]_vars


\* ------------------------------------------------- claims about auto-scroll
\* C34: the step in which scrollToBottom's timer moves the slider leaves
\* m_autoScrollEnabled as it was.
C34_ProgrammaticScrollKeepsFlag ==
    [][ scroll'.op = "scrollTimer" =>
            scroll'.m_autoScrollEnabled = scroll.m_autoScrollEnabled ]_vars

====
